---- MODULE Spec2Model ----
\* Verification model of the decorator stack of python-decorators-0x01:
\* connection scope (1-with_db_connection.py), transaction wrappers
\* (2-transactional.py), retry policy (3-retry_on_failure.py) and the query
\* result cache (4-cache_query.py); of the signal handlers of the messaging
\* app (Django-signals_orm-0x04), of memoize
\* (0x03-Unittests_and_integration_tests) and of the streaming generators
\* (python-generators-0x00).
EXTENDS Integers, Sequences, FiniteSets, TLC

VARIABLES
    \* ---- connection scope and transaction wrappers
    plan,       \* the decorated call being made: which wrappers, what the bodies do
    stack,      \* Python call stack of wrapper / function frames, innermost last
    step,       \* position of the innermost frame
    exc,        \* the exception in flight ("none" when there is none)
    db,         \* the sqlite connection's transaction state and the stored rows
    conn,       \* the wrapper's local `conn`: "none", "open" or "closed"
    ret,        \* the value being returned ("none" when there is none)
    log,        \* every statement issued and every frame exit, in order
    outcome,    \* what the caller of the outermost wrapper receives
    \* ---- retry decorators
    policy,         \* the decorator and its arguments
    attempt,        \* loop variable of `for attempt in range(retries + 1)`
    current_delay,  \* delay before the next retry, in ticks
    calls,          \* number of times func was invoked
    errs,           \* the exception each failed invocation raised, in order
    waits,          \* the pre-jitter delay of every time.sleep so far
    slept,          \* the argument of the last time.sleep (after jitter)
    rstate,         \* "loop", "sleeping", "returned" or "raised"
    rerr,           \* the exception the retry wrapper raised to its caller
    reported,       \* attempt count in the final "failed after N attempts" message
    \* ---- query result cache
    query_cache,    \* the global dict, as its entries in insertion order
    now,            \* datetime.now(), in seconds
    advances,       \* number of times the clock has advanced
    ncalls,         \* number of calls made through a cache decorator
    version,        \* version of the backing data
    first,          \* per cache key: the call that last executed and stored
    lastCall,       \* what the last call through a cache decorator did
    \* ---- threads calling a cached function concurrently
    hpc,            \* per thread: position in the hit path of the wrapper
    hread,          \* per thread: the value of entry['hits'] it has loaded
    served,         \* number of calls that returned the entry's result
    \* ---- cache key generation
    kpair,          \* two calls of _generate_cache_key: their arguments
    kprints,        \* the two keys returned (<<>> before the calls)
    \* ---- messaging app (Django-signals_orm-0x04)
    msgs,           \* Message rows ever inserted, by id; `exists` is FALSE once deleted
    notes,          \* Notification rows, in insertion order
    sigOp,          \* the last ORM operation: its kind and the message it was on
    \* ---- memoize (0x03-Unittests_and_integration_tests)
    mobjs,          \* per instance: its attribute dict, attribute name to value
    minvoked,       \* per instance: number of times the underlying method ran
    maccesses,      \* every access of the memoized property so far, in order
    \* ---- streaming generators (python-generators-0x00)
    gen,            \* the generator: its position, local `cursor`, connection, rows left
    cleanup         \* close() calls made so far and the error the generator raised

txnVars == <<plan, stack, step, exc, ret, db, conn, log, outcome>>

retryVars == <<policy, attempt, current_delay, calls, errs, waits, slept, rstate, rerr, reported>>

cacheVars == <<query_cache, now, advances, ncalls, version, first, lastCall>>

hitVars == <<hpc, hread, served>>

keyVars == <<kpair, kprints>>

sigVars == <<msgs, notes, sigOp>>

memoVars == <<mobjs, minvoked, maccesses>>

genVars == <<gen, cleanup>>

\* The families added to the four above.
restVars == <<keyVars, sigVars, memoVars, genVars>>

nonTxnVars == <<retryVars, cacheVars, hitVars, restVars>>

\* The retry family shares `conn` and `db`: every retry-decorated function of
\* the file runs under with_db_connection.
nonRetryVars == <<plan, stack, step, exc, ret, log, outcome, cacheVars, hitVars, restVars>>

nonCacheVars == <<txnVars, retryVars, hitVars, restVars>>

vars == <<txnVars, retryVars, cacheVars, hitVars, restVars>>

\* ------------------------------------------------------------------------
\* Exceptions.  sqlite3.Error subclasses, other Exception subclasses, and
\* BaseException subclasses that `except Exception` does not catch.
BodyDbError(f)    == <<"sqlite3.Error", f>>
BodyOtherError(f) == <<"Exception", f>>
BodyInterrupt(f)  == <<"BaseException", f>>
CommitError       == <<"sqlite3.Error", "commit">>
RollbackError     == <<"sqlite3.Error", "rollback">>
StatementError    == <<"sqlite3.Error", "statement">>
ConnectError      == <<"sqlite3.Error", "connect">>
\* ValueError raised by the argument checks of the transaction wrappers, and
\* AttributeError raised by `conn.execute` on an object that has no execute.
ArgumentError     == <<"Exception", "ValueError">>
AttributeError    == <<"Exception", "AttributeError">>
NoError           == <<"none", "none">>

IsSqliteError(e) == e[1] = "sqlite3.Error"
IsException(e)   == e[1] \in {"sqlite3.Error", "Exception"}

\* ------------------------------------------------------------------------
\* The sqlite connection as the wrappers use it.
\*   committed : rows durably stored
\*   pending   : rows as seen through the connection (committed + open txn)
\*   inTxn     : a transaction is open
\*   bySp      : the open transaction was started by a SAVEPOINT statement
\*   sps       : savepoint stack, each with the rows at its creation
EmptyDb == [committed |-> {}, pending |-> {}, inTxn |-> FALSE, bySp |-> FALSE, sps |-> <<>>]

DbWrite(d, w) == [d EXCEPT !.pending = @ \cup {w}, !.inTxn = TRUE]

DbCommit(d) == [d EXCEPT !.committed = d.pending, !.inTxn = FALSE, !.bySp = FALSE, !.sps = <<>>]

DbRollback(d) == [d EXCEPT !.pending = d.committed, !.inTxn = FALSE, !.bySp = FALSE, !.sps = <<>>]

DbClose(d) == DbRollback(d)

DbSavepoint(d, n) ==
    [d EXCEPT !.sps = Append(@, [name |-> n, snap |-> d.pending]),
              !.inTxn = TRUE,
              !.bySp = IF d.inTxn THEN d.bySp ELSE TRUE]

HasSavepoint(d, n) == \E i \in DOMAIN d.sps : d.sps[i].name = n

LastSavepoint(d, n) ==
    CHOOSE i \in DOMAIN d.sps :
        /\ d.sps[i].name = n
        /\ \A j \in DOMAIN d.sps : d.sps[j].name = n => j <= i

DbRelease(d, n) ==
    LET i == LastSavepoint(d, n) IN
    IF i = 1 /\ d.bySp
    THEN DbCommit(d)
    ELSE [d EXCEPT !.sps = SubSeq(@, 1, i - 1)]

DbRollbackTo(d, n) ==
    LET i == LastSavepoint(d, n) IN
    [d EXCEPT !.pending = d.sps[i].snap, !.sps = SubSeq(@, 1, i)]

\* ------------------------------------------------------------------------
\* The decorated calls of the two files.
\*   conn  : "with_db_connection" | "configurable" | "db_connection"
\*           (1-with_db_connection.py, commit on success, rollback on error)
\*           "closing" (2-transactional.py: with_db_connection only closes)
\*   root  : wrapper directly under the connection wrapper
\*   inner : wrapper of the function the root function calls with the same conn
\*   catches  : the root function catches an Exception raised by the inner call
\*   sameName : both savepoint wrappers use the same savepoint name
\*   arg   : what the root wrapper receives as first argument: "conn" (a
\*           connection), "missing" (called with no arguments) or "other" (an
\*           object with neither `execute` nor `cursor`); conn "direct" is a
\*           call of the transaction wrapper without a connection wrapper
Plans ==
    { [conn |-> c, root |-> "none", inner |-> "none", catches |-> FALSE, sameName |-> FALSE,
       arg |-> "conn"]
        : c \in {"with_db_connection", "configurable", "db_connection"} }
    \cup
    { [conn |-> "closing", root |-> r, inner |-> i, catches |-> k, sameName |-> s, arg |-> "conn"]
        : r \in {"transactional", "savepoints"},
          i \in {"none", "transactional", "savepoints"},
          k \in BOOLEAN, s \in BOOLEAN }
    \cup
    { [conn |-> "direct", root |-> r, inner |-> "none", catches |-> FALSE, sameName |-> FALSE,
       arg |-> a]
        : r \in {"transactional", "savepoints"}, a \in {"missing", "other"} }

BodyOutcomes == {"return", "sqlite3.Error", "Exception", "BaseException"}

Top == stack[Len(stack)]

KindOf(f) == IF f = "rootw" THEN plan.root ELSE IF f = "innerw" THEN plan.inner ELSE "none"

BodyOf(w) == IF w = "rootw" THEN "rootf" ELSE "innerf"

\* args[0] of wrapper w: the inner wrapper is always called with the connection.
ArgOf(w) == IF w = "rootw" THEN plan.arg ELSE "conn"

SpName(w) == IF w = "rootw" \/ plan.sameName THEN "sp1" ELSE "sp2"

Ev(op, by, ok, err) == [op |-> op, by |-> by, ok |-> ok, err |-> err]

Value(f) == <<"value", f>>
NoValue  == <<"none", "none">>

RaisedBy(f, o) ==
    IF o = "sqlite3.Error" THEN BodyDbError(f)
    ELSE IF o = "Exception" THEN BodyOtherError(f)
    ELSE IF o = "BaseException" THEN BodyInterrupt(f)
    ELSE NoError

\* The retry family at rest (no retry-decorated call is being made).
RetryIdle ==
    /\ policy = [kind |-> "none"]
    /\ attempt = 0
    /\ current_delay = 0
    /\ calls = 0
    /\ errs = <<>>
    /\ waits = <<>>
    /\ slept = 0
    /\ rstate = "idle"
    /\ rerr = [type |-> "none", msg |-> ""]
    /\ reported = 0

\* The cache family at rest: the module-level `query_cache = {}`.
NoResult == [shape |-> "none", data |-> <<>>]

NoCall ==
    [func |-> "none", cap |-> 0, ttl |-> 0, key |-> <<>>, path |-> "none", invoked |-> FALSE,
     stored |-> FALSE, present |-> FALSE, expired |-> FALSE, entryAt |-> 0,
     within |-> FALSE, firstRes |-> NoResult, returned |-> NoResult,
     raised |-> "none", at |-> 0, write |-> FALSE, touched |-> FALSE,
     removed |-> {}, invalidated |-> FALSE, connected |-> FALSE]

CacheIdle ==
    /\ query_cache = <<>>
    /\ now = 0
    /\ advances = 0
    /\ ncalls = 0
    /\ version = 0
    /\ first = {}
    /\ lastCall = NoCall

\* No thread is inside a cache wrapper.
HitsIdle ==
    /\ hpc = <<>>
    /\ hread = <<>>
    /\ served = 0

\* _generate_cache_key is not being followed.
KeyIdle ==
    /\ kpair = <<>>
    /\ kprints = <<>>

\* No message has been sent.
SigIdle ==
    /\ msgs = <<>>
    /\ notes = <<>>
    /\ sigOp = [op |-> "none", msg |-> 0]

\* No memoized property has been accessed.
MemoIdle ==
    /\ mobjs = <<>>
    /\ minvoked = <<>>
    /\ maccesses = <<>>

\* No generator has been started.
GenIdle ==
    /\ gen = [pc |-> "none"]
    /\ cleanup = [cursor |-> 0, connection |-> 0, raised |-> "none"]

RestIdle == KeyIdle /\ SigIdle /\ MemoIdle /\ GenIdle

\* No call through the connection / transaction wrappers is being followed.
CallIdle ==
    /\ plan = [conn |-> "none"]
    /\ stack = <<>>
    /\ step = "idle"
    /\ exc = NoError
    /\ ret = NoValue
    /\ log = <<>>
    /\ outcome = <<"pending", "none">>

\* The connection / transaction family at rest.
TxnIdle ==
    /\ CallIdle
    /\ db = EmptyDb
    /\ conn = "none"

TxnInit ==
    /\ RestIdle
    /\ RetryIdle
    /\ CacheIdle
    /\ HitsIdle
    /\ plan \in Plans
    /\ stack = <<IF plan.conn = "direct" THEN "rootw" ELSE "conn">>
    /\ step = "enter"
    /\ exc = NoError
    /\ ret = NoValue
    /\ db = EmptyDb
    /\ conn = "none"
    /\ log = <<>>
    /\ outcome = <<"pending", "none">>

At(f, s) == Len(stack) > 0 /\ Top = f /\ step = s

\* A frame finishes, returning v or raising e: control goes back to the frame
\* below it, or to the caller of the outermost wrapper.
Leave(e, v) ==
    /\ stack' = SubSeq(stack, 1, Len(stack) - 1)
    /\ step' = IF Len(stack) = 1 THEN "done" ELSE IF e = NoError THEN "ret" ELSE "exc"
    /\ exc' = e
    /\ ret' = IF e = NoError THEN v ELSE NoValue
    /\ outcome' = IF Len(stack) = 1 THEN (IF e = NoError THEN v ELSE e) ELSE outcome

Exit(by, e, v) == Ev("exit", by, e = NoError, IF e = NoError THEN v ELSE e)

\* `conn.rollback()` then a bare `raise` inside an except block: the handled
\* exception is re-raised, unless rollback() itself raised inside the handler.
AfterRollback(e, ok) == IF ok THEN e ELSE RollbackError

\* ---- with_db_connection / with_db_connection_configurable / db_connection
\* sqlite3.connect(db_path); on success the wrapped function is called with conn.
with_db_connection_connect ==
    /\ UNCHANGED nonTxnVars
    /\ At("conn", "enter")
    /\ \E ok \in BOOLEAN :
        /\ log' = Append(log, Ev("connect", "conn", ok, IF ok THEN NoError ELSE ConnectError))
        /\ IF ok
           THEN /\ conn' = "open"
                /\ stack' = Append(stack, IF plan.root = "none" THEN "rootf" ELSE "rootw")
                /\ step' = "enter"
                /\ exc' = NoError
           ELSE /\ conn' = "none"
                /\ stack' = stack
                /\ step' = "exc"
                /\ exc' = ConnectError
    /\ UNCHANGED <<plan, ret, db, outcome>>

\* The wrapped function returned: conn.commit() inside the try block
\* (1-with_db_connection.py); the closing-only wrapper of 2-transactional.py
\* returns the result without committing.
with_db_connection_commit ==
    /\ UNCHANGED nonTxnVars
    /\ At("conn", "ret")
    /\ IF plan.conn = "closing"
       THEN /\ step' = "finally"
            /\ UNCHANGED <<exc, ret, db, log>>
       ELSE \E ok \in BOOLEAN :
            /\ log' = Append(log, Ev("commit", "conn", ok, IF ok THEN NoError ELSE CommitError))
            /\ db' = IF ok THEN DbCommit(db) ELSE db
            /\ step' = IF ok THEN "finally" ELSE "exc"
            /\ exc' = IF ok THEN NoError ELSE CommitError
            /\ ret' = IF ok THEN ret ELSE NoValue
    /\ UNCHANGED <<plan, stack, conn, outcome>>

\* Mutant: the handler rolls back without testing conn.
RollsBackUnguarded(c) == TRUE

\* `if conn:` in the except blocks: conn is still None when connect() raised.
HasConnection(c) == c = "open"

\* except sqlite3.Error / except Exception: `if conn: conn.rollback()` then raise.
\* A failing rollback raises from inside the handler and replaces the exception.
with_db_connection_rollback ==
    /\ UNCHANGED nonTxnVars
    /\ At("conn", "exc")
    /\ step' = "finally"
    /\ IF plan.conn # "closing" /\ IsException(exc) /\ HasConnection(conn)
       THEN \E ok \in BOOLEAN :
            /\ log' = Append(log, Ev("rollback", "conn", ok, IF ok THEN NoError ELSE RollbackError))
            /\ db' = IF ok THEN DbRollback(db) ELSE db
            /\ exc' = AfterRollback(exc, ok)
       ELSE UNCHANGED <<exc, db, log>>
    /\ UNCHANGED <<plan, stack, ret, conn, outcome>>

\* Mutant: conn.close() placed after the try block instead of in `finally`.
ClosesOnSuccessOnly(c, e) == c = "open" /\ e = NoError

\* `finally: if conn:` runs on every exit of the try block, whatever is raised.
ClosesConnection(c, e) == c = "open"

\* finally: `if conn: conn.close()`; then the result or the exception leaves.
with_db_connection_close ==
    /\ UNCHANGED nonTxnVars
    /\ At("conn", "finally")
    /\ IF ClosesConnection(conn, exc)
       THEN /\ conn' = "closed"
            /\ db' = DbClose(db)
            /\ log' = log \o <<Ev("close", "conn", TRUE, NoError), Exit("conn", exc, ret)>>
       ELSE /\ log' = Append(log, Exit("conn", exc, ret))
            /\ UNCHANGED <<conn, db>>
    /\ Leave(exc, ret)
    /\ UNCHANGED plan

\* ---- transactional (2-transactional.py)
\* `if not args` / `if not hasattr(conn, 'execute') and not hasattr(conn, 'cursor')`
TransactionalRejects(a) == a \in {"missing", "other"}

\* The argument checks raise ValueError before the try block, or they pass
\* and func(*args) is called.
transactional_enter ==
    /\ UNCHANGED nonTxnVars
    /\ \E w \in {"rootw", "innerw"} :
        /\ At(w, "enter")
        /\ KindOf(w) = "transactional"
        /\ IF TransactionalRejects(ArgOf(w))
           THEN /\ log' = Append(log, Exit(w, ArgumentError, NoValue))
                /\ Leave(ArgumentError, NoValue)
           ELSE /\ stack' = Append(stack, BodyOf(w))
                /\ step' = "enter"
                /\ UNCHANGED <<exc, ret, log, outcome>>
        /\ UNCHANGED <<plan, db, conn>>

\* func returned: conn.commit() inside the try block, then `return result`.
transactional_commit ==
    /\ UNCHANGED nonTxnVars
    /\ \E w \in {"rootw", "innerw"} :
        /\ At(w, "ret")
        /\ KindOf(w) = "transactional"
        /\ \E ok \in BOOLEAN :
            IF ok
            THEN /\ db' = DbCommit(db)
                 /\ log' = log \o <<Ev("commit", w, TRUE, NoError), Exit(w, NoError, ret)>>
                 /\ Leave(NoError, ret)
            ELSE /\ log' = Append(log, Ev("commit", w, FALSE, CommitError))
                 /\ step' = "exc"
                 /\ exc' = CommitError
                 /\ ret' = NoValue
                 /\ UNCHANGED <<stack, db, outcome>>
        /\ UNCHANGED <<plan, conn>>

\* Mutant: only the `except sqlite3.Error` clause, no `except Exception`.
CatchesSqliteOnly(e) == IsSqliteError(e)

\* `except sqlite3.Error` and `except Exception` catch the exception e.
TransactionalCatches(e) == IsException(e)

\* except sqlite3.Error / except Exception: conn.rollback(); raise.
transactional_rollback ==
    /\ UNCHANGED nonTxnVars
    /\ \E w \in {"rootw", "innerw"} :
        /\ At(w, "exc")
        /\ KindOf(w) = "transactional"
        /\ IF TransactionalCatches(exc)
           THEN \E ok \in BOOLEAN :
                /\ db' = IF ok THEN DbRollback(db) ELSE db
                /\ log' = log \o <<Ev("rollback", w, ok, IF ok THEN NoError ELSE RollbackError),
                                   Exit(w, AfterRollback(exc, ok), NoValue)>>
                /\ Leave(AfterRollback(exc, ok), NoValue)
           ELSE /\ log' = Append(log, Exit(w, exc, NoValue))
                /\ db' = db
                /\ Leave(exc, NoValue)
        /\ UNCHANGED <<plan, conn>>

\* ---- transactional_with_savepoints (2-transactional.py)
\* `if not args`: the only argument check of transactional_with_savepoints.
SavepointsRejects(a) == a = "missing"

\* `if not args: raise ValueError`; otherwise conn.execute("SAVEPOINT sp")
\* inside the try block, then func(*args).  On an object without `execute`
\* the attribute lookup raises AttributeError inside the try block and no
\* statement is issued.
savepoints_enter ==
    /\ UNCHANGED nonTxnVars
    /\ \E w \in {"rootw", "innerw"} :
        /\ At(w, "enter")
        /\ KindOf(w) = "savepoints"
        /\ IF SavepointsRejects(ArgOf(w))
           THEN /\ log' = Append(log, Exit(w, ArgumentError, NoValue))
                /\ Leave(ArgumentError, NoValue)
                /\ db' = db
           ELSE IF ArgOf(w) = "other"
           THEN /\ step' = "exc"
                /\ exc' = AttributeError
                /\ UNCHANGED <<stack, ret, db, log, outcome>>
           ELSE \E ok \in BOOLEAN :
                /\ log' = Append(log, Ev("savepoint", w, ok, IF ok THEN NoError ELSE StatementError))
                /\ IF ok
                   THEN /\ db' = DbSavepoint(db, SpName(w))
                        /\ stack' = Append(stack, BodyOf(w))
                        /\ step' = "enter"
                        /\ exc' = NoError
                   ELSE /\ db' = db
                        /\ stack' = stack
                        /\ step' = "exc"
                        /\ exc' = StatementError
                /\ UNCHANGED <<ret, outcome>>
        /\ UNCHANGED <<plan, conn>>

\* func returned: conn.execute("RELEASE SAVEPOINT sp"), then `return result`.
\* The statement fails when the savepoint no longer exists.
savepoints_release ==
    /\ UNCHANGED nonTxnVars
    /\ \E w \in {"rootw", "innerw"} :
        /\ At(w, "ret")
        /\ KindOf(w) = "savepoints"
        /\ \E env \in BOOLEAN :
            LET ok == env /\ HasSavepoint(db, SpName(w)) IN
            IF ok
            THEN /\ db' = DbRelease(db, SpName(w))
                 /\ log' = log \o <<Ev("release", w, TRUE, NoError), Exit(w, NoError, ret)>>
                 /\ Leave(NoError, ret)
            ELSE /\ log' = Append(log, Ev("release", w, FALSE, StatementError))
                 /\ step' = "exc"
                 /\ exc' = StatementError
                 /\ ret' = NoValue
                 /\ UNCHANGED <<stack, db, outcome>>
        /\ UNCHANGED <<plan, conn>>

\* Mutant: the handler rolls the whole transaction back (conn.rollback()).
FullRollbackCleanup(d, n, r1, r2) == IF r1 THEN DbRollback(d) ELSE d

\* The connection after the handler's `ROLLBACK TO SAVEPOINT sp` (outcome r1)
\* and, only when that succeeded, `RELEASE SAVEPOINT sp` (outcome r2).
SavepointCleanup(d, n, r1, r2) ==
    IF ~r1 THEN d
    ELSE IF ~r2 THEN DbRollbackTo(d, n)
    ELSE DbRelease(DbRollbackTo(d, n), n)

\* except Exception: ROLLBACK TO, RELEASE; a sqlite3.Error of either statement
\* is logged and dropped; then the bare `raise` re-raises the handled exception.
\* On an object without `execute` the handler's own conn.execute raises
\* AttributeError, which `except sqlite3.Error` does not catch.
savepoints_rollback ==
    /\ UNCHANGED nonTxnVars
    /\ \E w \in {"rootw", "innerw"} :
        /\ At(w, "exc")
        /\ KindOf(w) = "savepoints"
        /\ IF ArgOf(w) = "other"
           THEN /\ log' = Append(log, Exit(w, AttributeError, NoValue))
                /\ db' = db
                /\ Leave(AttributeError, NoValue)
           ELSE IF IsException(exc)
           THEN \E env1 \in BOOLEAN, env2 \in BOOLEAN :
                LET r1 == env1 /\ HasSavepoint(db, SpName(w))
                    r2 == r1 /\ env2
                IN
                /\ db' = SavepointCleanup(db, SpName(w), r1, r2)
                /\ log' = log \o <<Ev("rollback_to", w, r1, IF r1 THEN NoError ELSE StatementError)>>
                              \o (IF r1 THEN <<Ev("release", w, r2, IF r2 THEN NoError ELSE StatementError)>>
                                  ELSE <<>>)
                              \o <<Exit(w, exc, NoValue)>>
                /\ Leave(exc, NoValue)
           ELSE /\ log' = Append(log, Exit(w, exc, NoValue))
                /\ db' = db
                /\ Leave(exc, NoValue)
        /\ UNCHANGED <<plan, conn>>

\* ---- the decorated functions: they write through conn, the root function
\* may call a second decorated function with the same conn, and they return
\* or raise.
Row(f, when) == <<f, when>>

func_write ==
    /\ UNCHANGED nonTxnVars
    /\ \E f \in {"rootf", "innerf"} :
        /\ At(f, "enter")
        /\ db' = DbWrite(db, Row(f, "pre"))
        /\ step' = IF f = "rootf" /\ plan.inner # "none" THEN "call" ELSE "finish"
        /\ log' = Append(log, Ev("call", f, TRUE, NoError))
        /\ UNCHANGED <<plan, stack, exc, ret, conn, outcome>>

func_call_inner ==
    /\ UNCHANGED nonTxnVars
    /\ At("rootf", "call")
    /\ stack' = Append(stack, "innerw")
    /\ step' = "enter"
    /\ UNCHANGED <<plan, exc, ret, db, conn, log, outcome>>

func_after_inner ==
    /\ UNCHANGED nonTxnVars
    /\ At("rootf", "ret") \/ At("rootf", "exc")
    /\ IF step = "ret" \/ (plan.catches /\ IsException(exc))
       THEN /\ db' = DbWrite(db, Row("rootf", "post"))
            /\ step' = "finish"
            /\ exc' = NoError
            /\ ret' = NoValue
            /\ UNCHANGED <<stack, log, outcome>>
       ELSE /\ log' = Append(log, Exit("rootf", exc, NoValue))
            /\ db' = db
            /\ Leave(exc, NoValue)
    /\ UNCHANGED <<plan, conn>>

func_finish ==
    /\ UNCHANGED nonTxnVars
    /\ \E f \in {"rootf", "innerf"} :
        /\ At(f, "finish")
        /\ \E o \in BodyOutcomes :
            /\ log' = Append(log, Exit(f, RaisedBy(f, o), Value(f)))
            /\ Leave(RaisedBy(f, o), Value(f))
        /\ UNCHANGED <<plan, db, conn>>

TxnNext ==
    \/ with_db_connection_connect
    \/ with_db_connection_commit
    \/ with_db_connection_rollback
    \/ with_db_connection_close
    \/ transactional_enter
    \/ transactional_commit
    \/ transactional_rollback
    \/ savepoints_enter
    \/ savepoints_release
    \/ savepoints_rollback
    \/ func_write
    \/ func_call_inner
    \/ func_after_inner
    \/ func_finish

SpecTxn == TxnInit /\ [][TxnNext]_vars

\* ------------------------------------------------------------------------
\* Retry decorators (3-retry_on_failure.py).
MaxRetries == 3

\* Delays are counted in ticks of 1/64 s, so that the products of the delays
\* and backoff factors used (0.5, 1, 2 s; 1.0, 1.5, 2.0) are exact.
TicksPerSecond == 64

\* Python exception classes: the classes an exception of type t is an instance of.
Ancestors(t) ==
    CASE t = "OperationalError"  -> {"OperationalError", "DatabaseError", "sqlite3.Error", "Exception"}
      [] t = "IntegrityError"    -> {"IntegrityError", "DatabaseError", "sqlite3.Error", "Exception"}
      [] t = "ConnectionError"   -> {"ConnectionError", "OSError", "Exception"}
      [] t = "TimeoutError"      -> {"TimeoutError", "OSError", "Exception"}
      [] t = "ValueError"        -> {"ValueError", "Exception"}
      [] t = "KeyboardInterrupt" -> {"KeyboardInterrupt"}
      [] OTHER                   -> {}

\* Mutant: a clause matches instances of proper subclasses only.
IsInstanceOfSubclass(e, classes) == (Ancestors(e.type) \ {e.type}) \cap classes # {}

\* `except classes as e`: e is an instance of one of the classes.
IsInstance(e, classes) == Ancestors(e.type) \cap classes # {}

\* What the decorated operation may raise.
RaisedErrors ==
    { [type |-> "OperationalError",  msg |-> "database is locked"],
      [type |-> "OperationalError",  msg |-> "no such table"],
      [type |-> "IntegrityError",    msg |-> "unique constraint failed"],
      [type |-> "ConnectionError",   msg |-> "unable to connect"],
      [type |-> "ValueError",        msg |-> "not found"],
      [type |-> "KeyboardInterrupt", msg |-> ""] }

NoRaised == [type |-> "none", msg |-> ""]

\* transient_errors default of retry_on_failure.
DefaultTransient == {"OperationalError", "DatabaseError", "ConnectionError", "TimeoutError", "OSError"}

\* sqlite_transient_errors of smart_retry.
SqliteTransient == {"OperationalError", "DatabaseError"}

\* retryable_keywords of smart_retry.
RetryableKeywords ==
    {"database is locked", "disk i/o error", "database disk image is malformed",
     "unable to open database file"}

is_retryable(e) == e.msg \in RetryableKeywords

\* The decorator arguments used in the file, for every retries in 0..MaxRetries,
\* and two more settings of retry_on_failure: delay 1 s doubling each time, and
\* a delay (4 s) above max_delay (2 s).  The last choice of tuples lists the
\* same classes in transient_errors and in exceptions.
\* backoff is the factor as a fraction <<numerator, denominator>>.
RetryPolicies ==
    { [kind |-> "retry_on_failure", retries |-> r, delay |-> t[1], backoff |-> t[2],
       max_delay |-> t[3], transient |-> c[1], exceptions |-> c[2]]
        : r \in 0..MaxRetries,
          t \in { <<2 * TicksPerSecond, <<1, 1>>, 30 * TicksPerSecond>>,
                  <<TicksPerSecond \div 2, <<2, 1>>, 10 * TicksPerSecond>>,
                  <<TicksPerSecond, <<2, 1>>, 30 * TicksPerSecond>>,
                  <<4 * TicksPerSecond, <<2, 1>>, 2 * TicksPerSecond>> },
          c \in { <<DefaultTransient, {"Exception"}>>,
                  <<{"OperationalError", "ConnectionError"}, {"sqlite3.Error", "OSError"}>>,
                  <<{"OperationalError", "ValueError"}, {"OperationalError", "ValueError"}>> } }
    \cup
    { [kind |-> "smart_retry", retries |-> r, delay |-> TicksPerSecond, backoff |-> b,
       max_delay |-> 0, transient |-> SqliteTransient, exceptions |-> {"Exception"}]
        : r \in 0..MaxRetries, b \in { <<2, 1>>, <<3, 2>> } }

\* 0.5 + random.random() * 0.5, in percent: random() is in [0, 1).
JitterPercents == {50, 75, 99}

\* with_db_connection (3-retry_on_failure.py) has opened the connection and
\* calls the retry wrapper with it.
RetryInit ==
    /\ RestIdle
    /\ CallIdle
    /\ CacheIdle
    /\ HitsIdle
    /\ conn = "open"
    /\ db = EmptyDb
    /\ policy \in RetryPolicies
    /\ attempt = 0
    /\ current_delay = policy.delay
    /\ calls = 0
    /\ errs = <<>>
    /\ waits = <<>>
    /\ slept = 0
    /\ rstate = "loop"
    /\ rerr = NoRaised
    /\ reported = 0

\* Mutant: the last retry is never taken.
MayRetryOffByOne(a, r) == a < r - 1

\* Mutant: a retry is taken on the last pass as well.
MayRetryAlways(a, r) == TRUE

\* `if attempt < retries`, with attempt ranging over range(retries + 1).
MayRetry(a, r) == a < r

\* Mutant: the type test of the second except clause inverted.
IsTransientType(e, transient) == e.type \in transient

\* `if type(e) not in transient_errors` in the `except exceptions` clause.
NotTransientType(e, transient) == e.type \notin transient

\* What the handlers of retry_on_failure do with exception e at attempt a.
RetryDecision(p, e, a) ==
    IF IsInstance(e, p.transient)
    THEN IF MayRetry(a, p.retries) THEN "sleep" ELSE "exhausted"
    ELSE IF IsInstance(e, p.exceptions)
    THEN IF NotTransientType(e, p.transient) THEN "raise"
         ELSE IF MayRetry(a, p.retries) THEN "continue" ELSE "raise"
    ELSE "raise"

\* What the handlers of smart_retry do with exception e at attempt a.
SmartDecision(p, e, a) ==
    IF IsInstance(e, p.transient)
    THEN IF is_retryable(e) /\ MayRetry(a, p.retries) THEN "sleep" ELSE "raise"
    ELSE "raise"

Decision(p, e, a) ==
    IF p.kind = "smart_retry" THEN SmartDecision(p, e, a) ELSE RetryDecision(p, e, a)

\* jittered_delay of retry_on_failure; smart_retry sleeps current_delay itself.
Jittered(p, d, j) == IF p.kind = "smart_retry" THEN d ELSE (d * j) \div 100

Min(a, b) == IF a <= b THEN a ELSE b

\* Mutant: no backoff, the delay stays what it was.
NextDelayConstant(p, d) == d

\* current_delay after a sleep.
NextDelay(p, d) ==
    IF p.kind = "smart_retry"
    THEN (d * p.backoff[1]) \div p.backoff[2]
    ELSE Min((d * p.backoff[1]) \div p.backoff[2], p.max_delay)

\* `for attempt in range(retries + 1)`.
InRange(a, r) == a < r + 1

\* The RuntimeError raised after the loop.
UnexpectedEnd == [type |-> "RuntimeError", msg |-> "Unexpected end of retry loop"]

\* One pass of the loop body: func is invoked; it returns, or raises and a
\* handler sleeps, continues or re-raises.
\* Before it returns or raises, func may have written through conn, which
\* opens a transaction; nothing in the loop commits or rolls it back.
\* When range(retries + 1) is used up the statement after the loop raises.
retry_invoke ==
    /\ UNCHANGED nonRetryVars
    /\ rstate = "loop"
    /\ IF ~InRange(attempt, policy.retries)
       THEN /\ rstate' = "raised"
            /\ rerr' = UnexpectedEnd
            /\ UNCHANGED <<policy, attempt, current_delay, calls, errs, waits, slept, reported,
                           conn, db>>
       ELSE /\ calls' = calls + 1
            /\ conn' = conn
            /\ \E wrote \in BOOLEAN : db' = IF wrote THEN DbWrite(db, Row("func", "pre")) ELSE db
            /\ \/ /\ rstate' = "returned"
                  /\ UNCHANGED <<policy, attempt, current_delay, errs, waits, slept, rerr, reported>>
               \/ \E e \in RaisedErrors :
                    LET d == Decision(policy, e, attempt) IN
                    /\ errs' = Append(errs, e)
                    /\ IF d = "sleep"
                       THEN \E j \in JitterPercents :
                            /\ slept' = Jittered(policy, current_delay, j)
                            /\ waits' = Append(waits, current_delay)
                            /\ rstate' = "sleeping"
                            /\ UNCHANGED <<attempt, rerr, reported>>
                       ELSE IF d = "continue"
                       THEN /\ attempt' = attempt + 1
                            /\ rstate' = "loop"
                            /\ UNCHANGED <<waits, slept, rerr, reported>>
                       ELSE /\ rstate' = "raised"
                            /\ rerr' = e
                            /\ reported' = IF d = "exhausted" THEN policy.retries + 1 ELSE reported
                            /\ UNCHANGED <<attempt, waits, slept>>
                    /\ UNCHANGED <<policy, current_delay>>

\* The KeyboardInterrupt a signal raises in the thread blocked in time.sleep.
SleepInterrupt == [type |-> "KeyboardInterrupt", msg |-> "during time.sleep"]

\* Mutant: the interrupt is swallowed and the loop goes on.
SleepIgnoresInterrupt(interrupted) == "loop"

\* time.sleep is called inside the except block: an exception it raises is
\* not handled by the clauses of the same try statement and leaves the wrapper.
AfterSleep(interrupted) == IF interrupted THEN "raised" ELSE "loop"

\* time.sleep returns: the delay is scaled for the next retry and the loop
\* continues; or a signal interrupts the sleep.
retry_wake ==
    /\ UNCHANGED nonRetryVars
    /\ rstate = "sleeping"
    /\ \E interrupted \in BOOLEAN :
        /\ rstate' = AfterSleep(interrupted)
        /\ rerr' = IF interrupted THEN SleepInterrupt ELSE rerr
        /\ current_delay' = IF interrupted THEN current_delay ELSE NextDelay(policy, current_delay)
        /\ attempt' = IF interrupted THEN attempt ELSE attempt + 1
    /\ UNCHANGED <<policy, calls, errs, waits, slept, reported, conn, db>>

\* The retry wrapper has returned or raised: with_db_connection's `finally`
\* closes the connection.
retry_close ==
    /\ UNCHANGED nonRetryVars
    /\ rstate \in {"returned", "raised"}
    /\ conn = "open"
    /\ conn' = "closed"
    /\ db' = DbClose(db)
    /\ UNCHANGED retryVars

RetryNext == retry_invoke \/ retry_wake \/ retry_close

SpecRetry == RetryInit /\ [][RetryNext]_vars

\* An error the policy classifies as retryable.
Retryable(p, e) ==
    IF p.kind = "smart_retry"
    THEN IsInstance(e, p.transient) /\ is_retryable(e)
    ELSE IsInstance(e, p.transient)

\* Every invocation so far raised a retryable error and the wrapper has raised.
ExhaustedOnTransient ==
    /\ rstate = "raised"
    /\ rerr # SleepInterrupt
    /\ Len(errs) = calls
    /\ \A i \in DOMAIN errs : Retryable(policy, errs[i])

\* C3 (as stated): with the attempt limit configured as N >= 1, an operation
\* failing with a transient error on every attempt is invoked exactly N times
\* and the surfaced error carries attempt count N.
C3_InvokedExactlyN ==
    (ExhaustedOnTransient /\ policy.retries >= 1) =>
        /\ calls = policy.retries
        /\ policy.kind = "retry_on_failure" => reported = policy.retries

\* C3 (amended): with retries = N the operation is invoked exactly N + 1 times
\* (one initial attempt and N retries) with N waits, then the loop stops and
\* the last error is re-raised unchanged; the attempt count reported is N + 1.
C3_InvokedRetriesPlusOne ==
    /\ calls <= policy.retries + 1
    /\ ExhaustedOnTransient =>
        /\ calls = policy.retries + 1
        /\ Len(waits) = policy.retries
        /\ rerr = errs[Len(errs)]
        /\ policy.kind = "retry_on_failure" => reported = policy.retries + 1

C3_Witness ==
    /\ ExhaustedOnTransient
    /\ policy.kind = "retry_on_failure"
    /\ policy.retries = 3
    /\ calls = 4

\* C4: an invocation that raises an error the policy does not classify as
\* retryable is the last one: the error is raised at once, no wait follows,
\* and when it is the first invocation the operation was invoked exactly
\* once, for every value of retries.
C4_PermanentErrorNotRetried ==
    \A i \in DOMAIN errs :
        ~Retryable(policy, errs[i]) =>
            /\ i = Len(errs)
            /\ calls = i
            /\ rstate = "raised"
            /\ rerr = errs[i]
            /\ Len(waits) = i - 1

C4_Witness ==
    /\ policy.retries = 3
    /\ rstate = "raised"
    /\ calls = 1
    /\ waits = <<>>
    /\ errs = << [type |-> "ValueError", msg |-> "not found"] >>

\* ------------------------------------------------------------------------
\* Query result cache (4-cache_query.py).
MaxCalls == 2
MaxAdvances == 2

\* ttl_seconds default of _store_in_cache, max_entries default of
\* _cleanup_cache, and the extra entries _cleanup_cache removes.
DefaultTtl == 300
DefaultMaxEntries == 100
ExtraRemoved == 10

\* Strings are sequences of one-character strings.
LowerLetters == <<"a", "c", "d", "e", "h", "i", "l", "p", "s", "t", "u", "w">>
UpperLetters == <<"A", "C", "D", "E", "H", "I", "L", "P", "S", "T", "U", "W">>

\* str.upper()
Upper(str) ==
    [k \in DOMAIN str |->
        IF \E j \in DOMAIN LowerLetters : LowerLetters[j] = str[k]
        THEN UpperLetters[CHOOSE j \in DOMAIN LowerLetters : LowerLetters[j] = str[k]]
        ELSE str[k]]

IsSpace(c) == c \in {" ", "\t", "\n"}

\* ' '.join(str.split()), built left to right in acc (a trailing blank is dropped).
RECURSIVE JoinSplit(_, _)
JoinSplit(str, acc) ==
    IF str = <<>>
    THEN IF acc # <<>> /\ acc[Len(acc)] = " " THEN SubSeq(acc, 1, Len(acc) - 1) ELSE acc
    ELSE IF IsSpace(Head(str))
    THEN JoinSplit(Tail(str), IF acc # <<>> /\ acc[Len(acc)] # " " THEN Append(acc, " ") ELSE acc)
    ELSE JoinSplit(Tail(str), Append(acc, Head(str)))

\* normalized_query of _generate_cache_key
Normalize(query) == Upper(JoinSplit(query, <<>>))

StartsWith(str, prefix) ==
    Len(str) >= Len(prefix) /\ SubSeq(str, 1, Len(prefix)) = prefix

\* `sub in str`
Contains(str, sub) ==
    \E k \in 1..(Len(str) - Len(sub) + 1) : SubSeq(str, k, k + Len(sub) - 1) = sub

KwSelect == <<"S", "E", "L", "E", "C", "T">>
KwWith   == <<"W", "I", "T", "H">>

\* str.strip()
RECURSIVE Strip(_)
Strip(str) ==
    IF str = <<>> THEN str
    ELSE IF IsSpace(Head(str)) THEN Strip(Tail(str))
    ELSE IF IsSpace(str[Len(str)]) THEN Strip(SubSeq(str, 1, Len(str) - 1))
    ELSE str

\* Mutant: every query passes for a read.
AlwaysReadShaped(query) == TRUE

\* query.strip().upper() starts with SELECT or WITH
ReadShaped(query) ==
    LET query_upper == Upper(Strip(query))
    IN  StartsWith(query_upper, KwSelect) \/ StartsWith(query_upper, KwWith)

\* The query the wrapper finds: a positional string is taken only when it
\* contains SELECT or WITH; otherwise kwargs.get('query').
ExtractQuery(how, q) ==
    IF how = "pos" /\ ~(Contains(Upper(q), KwSelect) \/ Contains(Upper(q), KwWith))
    THEN <<>>
    ELSE q

NoParams == [kind |-> "none", items |-> <<>>]

\* Keys of dict parameters, in the order json.dumps(sort_keys=True) puts them.
KeyAlphabet == <<"a", "b">>

\* str(dict) order: the items as they were inserted.
RECURSIVE DumpsInserted(_)
DumpsInserted(items) ==
    IF items = <<>> THEN <<>>
    ELSE <<Head(items)[1], ":", Head(items)[2], ",">> \o DumpsInserted(Tail(items))

\* json.dumps(params, sort_keys=True): the items in key order, from key i on.
RECURSIVE DumpsSorted(_, _)
DumpsSorted(items, i) ==
    IF i > Len(KeyAlphabet) THEN <<>>
    ELSE DumpsInserted(SelectSeq(items, LAMBDA it : it[1] = KeyAlphabet[i]))
         \o DumpsSorted(items, i + 1)

\* Mutant: a dict is serialized in insertion order.
ParamsStrUnsorted(params) ==
    IF params.items = <<>> THEN <<>>
    ELSE IF params.kind = "dict" THEN <<"{">> \o DumpsInserted(params.items) \o <<"}">>
    ELSE <<params.kind>> \o params.items

\* params_str of _generate_cache_key: "" for falsy params, json.dumps with
\* sorted keys for a dict (items are <<key, value>> pairs), str(params) otherwise.
ParamsStr(params) ==
    IF params.items = <<>> THEN <<>>
    ELSE IF params.kind = "dict" THEN <<"{">> \o DumpsSorted(params.items, 1) \o <<"}">>
    ELSE <<params.kind>> \o params.items

\* key_data of _generate_cache_key; the SHA-256 digest is modelled by key_data
\* itself (no collisions).
GenerateCacheKey(query, params, func_name) ==
    <<func_name, ":">> \o Normalize(query) \o <<":">> \o ParamsStr(params)

\* Functions taking (conn, query, ...) under the two decorators: cache_query
\* as on fetch_users_with_cache, and cache_query_advanced with the arguments
\* used in the file (ttl 60) and with a small size and cache_read_only=False.
\* shape is what the function returns: fetchall (list of sqlite3.Row) or a
\* plain value; outer is the decorator written above the cache decorator,
\* whose wrapper runs first (every cached function of the file is declared
\* `@with_db_connection` above its cache decorator).
Decorated ==
    { [name |-> "fetch_users_with_cache", kind |-> "cache_query", outer |-> "with_db_connection",
       ttl |-> DefaultTtl, cap |-> DefaultMaxEntries, read_only |-> TRUE, shape |-> "rows"],
      [name |-> "count_ttl60", kind |-> "cache_query_advanced", outer |-> "with_db_connection",
       ttl |-> 60, cap |-> DefaultMaxEntries, read_only |-> TRUE, shape |-> "scalar"],
      [name |-> "all_size2", kind |-> "cache_query_advanced", outer |-> "with_db_connection",
       ttl |-> DefaultTtl, cap |-> 2, read_only |-> FALSE, shape |-> "rows"] }

SelectA  == <<"s", "e", "l", "e", "c", "t", " ", "a">>
SelectA2 == <<" ", "S", "E", "L", "E", "C", "T", " ", "\t", "A">>
UpdateA  == <<"u", "p", "d", "a", "t", "e", " ", "a">>

\* What callers pass: a read, the same read in other case and spacing, and a
\* write (positionally and as query=...); `write` says the statement is one.
CallArgs ==
    { [q |-> SelectA,  how |-> "kw",  params |-> NoParams, write |-> FALSE],
      [q |-> SelectA2, how |-> "pos", params |-> NoParams, write |-> FALSE],
      [q |-> UpdateA,  how |-> "pos", params |-> NoParams, write |-> TRUE],
      [q |-> UpdateA,  how |-> "kw",  params |-> NoParams, write |-> TRUE] }

\* The rows the query execution returns for this query on this data.
Execute(f, q, params, v) ==
    [shape |-> f.shape, data |-> Normalize(q) \o ParamsStr(params) \o <<ToString(v)>>]

\* The two contents of the backing data.
Versions == {0, 1}

\* The front of the wrapper for each call a caller can make: the query it
\* finds, whether the call skips the cache, the cache key, and what the
\* wrapped function returns on each content of the data.
Calls ==
    { [func      |-> f,
       query     |-> ExtractQuery(a.how, a.q),
       bypass    |-> \/ ExtractQuery(a.how, a.q) = <<>>
                     \/ /\ f.kind = "cache_query" \/ f.read_only
                        /\ ~ReadShaped(ExtractQuery(a.how, a.q)),
       cache_key |-> GenerateCacheKey(ExtractQuery(a.how, a.q), a.params, f.name),
       write     |-> a.write,
       results   |-> [v \in Versions |-> Execute(f, a.q, a.params, v)]]
      : f \in Decorated, a \in CallArgs }

\* cached_result of _store_in_cache: sqlite3.Row objects become dicts.
Snapshot(result) ==
    [result EXCEPT !.shape = IF @ = "rows" THEN "dicts" ELSE IF @ = "row" THEN "dict" ELSE @]

\* Mutant: the entry is stored without a time to live.
NewEntryExpired(key, result, query, f, t) ==
    [key |-> key, result |-> Snapshot(result), query |-> query, func_name |-> f.name,
     cached_at |-> t, expires_at |-> t, hits |-> 0, last_accessed |-> t]

\* cache_entry of _store_in_cache
NewEntry(key, result, query, f, t) ==
    [key |-> key, result |-> Snapshot(result), query |-> query, func_name |-> f.name,
     cached_at |-> t, expires_at |-> t + f.ttl, hits |-> 0, last_accessed |-> t]

IndexOfKey(c, key) ==
    IF \E k \in DOMAIN c : c[k].key = key THEN CHOOSE k \in DOMAIN c : c[k].key = key ELSE 0

\* Mutant: an entry is still served at its expiry instant.
IsCacheValidInclusive(entry, t) == t <= entry.expires_at

\* _is_cache_valid: datetime.now() < cache_entry['expires_at']
IsCacheValid(entry, t) == t < entry.expires_at

\* Mutant: the expired entry is left in place.
DeleteNothing(c, key) == c

\* del query_cache[key]
Delete(c, key) == SelectSeq(c, LAMBDA e : e.key # key)

\* query_cache[key] = entry (a new key goes last, an existing one keeps its place)
Put(c, entry) ==
    IF IndexOfKey(c, entry.key) = 0 THEN Append(c, entry)
    ELSE [c EXCEPT ![IndexOfKey(c, entry.key)] = entry]

\* Mutant: a hit also renews the entry's expiry.
TouchRenews(c, idx, t) ==
    [c EXCEPT ![idx].hits = @ + 1, ![idx].last_accessed = t,
              ![idx].expires_at = t + (@ - c[idx].cached_at)]

\* The hit path: cache_entry['hits'] += 1; cache_entry['last_accessed'] = now
Touch(c, idx, t) == [c EXCEPT ![idx].hits = @ + 1, ![idx].last_accessed = t]

\* Mutant: the size test of _cleanup_cache off by one.
NeedsCleanupLate(n, max_entries) == n > max_entries + 1

\* `if len(query_cache) <= max_entries: return`
NeedsCleanup(n, max_entries) == n > max_entries

\* Mutant: the entries are taken in insertion order.
SortedByInsertion(c, times) == [k \in DOMAIN c |-> k]

\* sorted(query_cache.items(), key=last_accessed), as the positions of the
\* entries: the sort is stable, so entries of equal last_accessed keep their
\* insertion order.
RECURSIVE SortedByLastAccessed(_, _)
SortedByLastAccessed(c, times) ==
    IF times = {} THEN <<>>
    ELSE LET t == CHOOSE x \in times : \A y \in times : x <= y
         IN  SelectSeq([k \in DOMAIN c |-> k], LAMBDA k : c[k].last_accessed = t)
             \o SortedByLastAccessed(c, times \ {t})

\* _cleanup_cache: the first entries_to_remove entries of the sort are
\* deleted; indexing past the end of sorted_entries raises IndexError after
\* every entry has been deleted.
CleanupCache(c, max_entries) ==
    IF ~NeedsCleanup(Len(c), max_entries)
    THEN [cache |-> c, err |-> FALSE]
    ELSE LET sorted_entries == SortedByLastAccessed(c, {c[k].last_accessed : k \in DOMAIN c})
             entries_to_remove == Len(c) - max_entries + ExtraRemoved
             removed == {sorted_entries[k] : k \in 1..(IF entries_to_remove < Len(c) THEN entries_to_remove ELSE Len(c))}
             kept == SelectSeq([k \in DOMAIN c |-> k], LAMBDA k : k \notin removed)
         IN  [cache |-> [k \in DOMAIN kept |-> c[kept[k]]], err |-> entries_to_remove > Len(c)]

\* The cache before the calls observed: empty, or filled to the default
\* capacity by earlier calls of fetch_users_with_cache with distinct queries.
Filler(k) ==
    NewEntry(GenerateCacheKey(<<"SELECT", " ", ToString(k)>>, NoParams, "fetch_users_with_cache"),
             [shape |-> "rows", data |-> <<ToString(k)>>],
             <<"SELECT", " ", ToString(k)>>,
             [name |-> "fetch_users_with_cache", ttl |-> DefaultTtl], 0)

CacheInit ==
    /\ RestIdle
    /\ TxnIdle
    /\ RetryIdle
    /\ HitsIdle
    /\ \E n \in {0, DefaultMaxEntries} : query_cache = [k \in 1..n |-> Filler(k)]
    /\ now = 0
    /\ advances = 0
    /\ ncalls = 0
    /\ version = 0
    /\ first = {}
    /\ lastCall = NoCall

\* The run observed ends with its last call through a decorator.
MoreCalls == ncalls < MaxCalls

\* One call through cache_query / cache_query_advanced, start to finish.  The
\* wrapper of with_db_connection has opened the connection (line 29) before
\* the cache wrapper is entered (line 34) and closes it after it has returned.
cache_call ==
    /\ UNCHANGED nonCacheVars
    /\ MoreCalls
    /\ ncalls' = ncalls + 1
    /\ \E c \in Calls, ok \in BOOLEAN :
        LET f       == c.func
            query   == c.query
            bypass  == c.bypass
            key     == c.cache_key
            idx     == IndexOfKey(query_cache, key)
            present == idx > 0
            valid   == present /\ IsCacheValid(query_cache[idx], now)
            result  == c.results[version]
            deleted == IF present /\ ~valid THEN Delete(query_cache, key) ELSE query_cache
            cleaned == CleanupCache(Put(deleted, NewEntry(key, result, query, f, now)), f.cap)
            mine    == {r \in first : r.key = key}
            within  == \E r \in mine : now < r.at + f.ttl /\ r.version = version
            call    == [NoCall EXCEPT !.func = f.name, !.cap = f.cap, !.ttl = f.ttl, !.at = now,
                                      !.write = c.write,
                                      !.invalidated = (key \in lastCall.removed),
                                      !.connected = (f.outer = "with_db_connection")]
        IN
        IF bypass
        THEN /\ lastCall' = [call EXCEPT !.path = "bypass", !.invoked = TRUE,
                                         !.returned = IF ok THEN result ELSE NoResult,
                                         !.raised = IF ok THEN "none" ELSE "func"]
             /\ UNCHANGED <<query_cache, first>>
        ELSE IF valid
        THEN /\ query_cache' = Touch(query_cache, idx, now)
             /\ lastCall' = [call EXCEPT !.path = "hit", !.key = key, !.present = TRUE,
                                         !.entryAt = query_cache[idx].cached_at,
                                         !.within = within,
                                         !.firstRes = IF within THEN (CHOOSE r \in mine : TRUE).result ELSE NoResult,
                                         !.touched = TRUE,
                                         !.returned = query_cache[idx].result]
             /\ UNCHANGED first
        ELSE /\ query_cache' = IF ok THEN cleaned.cache ELSE deleted
             /\ lastCall' = [call EXCEPT !.path = "miss", !.key = key, !.invoked = TRUE,
                                         !.present = present,
                                         !.expired = present,
                                         !.entryAt = IF present THEN query_cache[idx].cached_at ELSE 0,
                                         !.within = within,
                                         !.firstRes = IF within THEN (CHOOSE r \in mine : TRUE).result ELSE NoResult,
                                         !.stored = ok,
                                         !.touched = (query_cache # IF ok THEN cleaned.cache ELSE deleted),
                                         !.returned = IF ok /\ ~cleaned.err THEN result ELSE NoResult,
                                         !.raised = IF ~ok THEN "func" ELSE IF cleaned.err THEN "IndexError" ELSE "none"]
             /\ first' = (first \ mine) \cup
                         (IF ok /\ ~cleaned.err
                          THEN {[key |-> key, at |-> now, result |-> result, version |-> version]}
                          ELSE {})
    /\ UNCHANGED <<now, advances, version>>

\* Time passes between calls.
ClockSteps == {30}

cache_advance ==
    /\ UNCHANGED nonCacheVars
    /\ MoreCalls
    /\ advances < MaxAdvances
    /\ advances' = advances + 1
    /\ \E d \in ClockSteps : now' = now + d
    /\ lastCall' = NoCall
    /\ UNCHANGED <<query_cache, ncalls, version, first>>

\* The backing data is changed by a write that does not go through the cache
\* (the data has two contents, 0 and 1).
data_write ==
    /\ UNCHANGED nonCacheVars
    /\ MoreCalls
    /\ version' = 1 - version
    /\ lastCall' = NoCall
    /\ UNCHANGED <<query_cache, now, advances, ncalls, first>>

\* clear_cache()
clear_cache ==
    /\ UNCHANGED nonCacheVars
    /\ MoreCalls
    /\ query_cache # <<>>
    /\ query_cache' = <<>>
    /\ lastCall' = NoCall
    /\ UNCHANGED <<now, advances, ncalls, version, first>>

\* invalidate_cache_pattern(pattern)
InvalidatePatterns == { <<"a">> }

\* Mutant: the pattern is compared as written.
MatchesPatternCased(entry, pattern) == Contains(entry.query, pattern)

\* `pattern.upper() in entry['query'].upper()`
MatchesPattern(entry, pattern) == Contains(Upper(entry.query), Upper(pattern))

invalidate_cache_pattern ==
    /\ UNCHANGED nonCacheVars
    /\ MoreCalls
    /\ \E pattern \in InvalidatePatterns :
        /\ query_cache' = SelectSeq(query_cache, LAMBDA e : ~MatchesPattern(e, pattern))
        /\ lastCall' = [NoCall EXCEPT
                           !.path = "invalidate",
                           !.key = pattern,
                           !.removed = {query_cache[k].key : k \in
                                           {j \in DOMAIN query_cache :
                                               MatchesPattern(query_cache[j], pattern)}}]
    /\ UNCHANGED <<now, advances, ncalls, version, first>>

CacheNext ==
    \/ cache_call
    \/ cache_advance
    \/ data_write
    \/ clear_cache
    \/ invalidate_cache_pattern

SpecCache == CacheInit /\ [][CacheNext]_vars

\* The cache as one earlier call of all_size2 left it.
SmallQuery == <<"SELECT", " ", "1">>

SmallInit ==
    /\ RestIdle
    /\ TxnIdle
    /\ RetryIdle
    /\ HitsIdle
    /\ query_cache = << NewEntry(GenerateCacheKey(SmallQuery, NoParams, "all_size2"),
                                 [shape |-> "rows", data |-> <<"1">>], SmallQuery,
                                 [name |-> "all_size2", ttl |-> DefaultTtl], 0) >>
    /\ now = 0
    /\ advances = 0
    /\ ncalls = 0
    /\ version = 0
    /\ first = {}
    /\ lastCall = NoCall

SpecSmall == SmallInit /\ [][CacheNext]_vars

\* The cache filled to the default capacity at time 0, the entry of
\* fetch_users_with_cache(query="select a") stored first; the clock has
\* advanced once since.
WarmInit ==
    /\ RestIdle
    /\ TxnIdle
    /\ RetryIdle
    /\ HitsIdle
    /\ query_cache =
         [k \in 1..DefaultMaxEntries |->
             IF k = 1
             THEN NewEntry(GenerateCacheKey(SelectA, NoParams, "fetch_users_with_cache"),
                           [shape |-> "rows", data |-> Normalize(SelectA) \o <<"0">>],
                           SelectA, [name |-> "fetch_users_with_cache", ttl |-> DefaultTtl], 0)
             ELSE Filler(k)]
    /\ now \in ClockSteps
    /\ advances = 1
    /\ ncalls = 0
    /\ version = 0
    /\ first = {}
    /\ lastCall = NoCall

SpecWarm == WarmInit /\ [][CacheNext]_vars

\* ------------------------------------------------------------------------
\* _generate_cache_key on its own: two calls with arguments drawn from the
\* sets below.  `class` names the statement a query text spells, so that texts
\* of one class differ only in letter case and runs of whitespace.
KeyQueries ==
    { [text |-> SelectA,  class |-> "select a"],
      [text |-> SelectA2, class |-> "select a"],
      [text |-> <<"s", "e", "l", "e", "c", "t", "\n", " ", "a", " ">>, class |-> "select a"],
      [text |-> <<"s", "e", "l", "e", "c", "t", "a">>, class |-> "selecta"],
      [text |-> <<"s", "e", "l", "e", "c", "t", " ", "e">>, class |-> "select e"] }

KeyParams ==
    { NoParams,
      [kind |-> "tuple", items |-> <<"1">>],
      [kind |-> "tuple", items |-> <<"2">>],
      [kind |-> "dict", items |-> << <<"a", "1">>, <<"b", "2">> >>],
      [kind |-> "dict", items |-> << <<"b", "2">>, <<"a", "1">> >>],
      [kind |-> "dict", items |-> << <<"b", "1">>, <<"a", "2">> >>] }

KeyArgs ==
    [query : KeyQueries, params : KeyParams, func_name : {"fetch_users_with_cache", "count_ttl60"}]

KeyInit ==
    /\ TxnIdle
    /\ RetryIdle
    /\ CacheIdle
    /\ HitsIdle
    /\ SigIdle
    /\ MemoIdle
    /\ GenIdle
    /\ kpair \in KeyArgs \X KeyArgs
    /\ kprints = <<>>

generate_cache_key ==
    /\ UNCHANGED <<txnVars, retryVars, cacheVars, hitVars, sigVars, memoVars, genVars>>
    /\ kprints = <<>>
    /\ kprints' = [i \in 1..2 |->
                      GenerateCacheKey(kpair[i].query.text, kpair[i].params, kpair[i].func_name)]
    /\ UNCHANGED kpair

SpecKey == KeyInit /\ [][generate_cache_key]_vars

\* ------------------------------------------------------------------------
\* Threads calling a cached function at the same time (4-cache_query.py has
\* no lock around query_cache).  Each thread runs the hit path of the wrapper;
\* `cache_entry['hits'] += 1` is a load of the counter followed by a store, and
\* another thread may run between the two.
MaxThreadCalls == 4

Threads == {"t1", "t2", "t3"}

\* The call every thread makes: fetch_users_with_cache(query="select a").
SharedCall ==
    CHOOSE c \in Calls : c.func.name = "fetch_users_with_cache" /\ c.query = SelectA

\* The entry was stored by an earlier call and is within its time to live.
HitsInit ==
    /\ RestIdle
    /\ TxnIdle
    /\ RetryIdle
    /\ query_cache = << NewEntry(SharedCall.cache_key, SharedCall.results[0], SharedCall.query,
                                 SharedCall.func, 0) >>
    /\ now = 0
    /\ advances = 0
    /\ ncalls = 0
    /\ version = 0
    /\ first = {}
    /\ lastCall = NoCall
    /\ hpc = [t \in Threads |-> "idle"]
    /\ hread = [t \in Threads |-> 0]
    /\ served = 0

Running == {t \in Threads : hpc[t] # "idle"}

\* `if cache_key in query_cache` and `_is_cache_valid(cache_entry)` both hold.
hit_lookup ==
    /\ UNCHANGED <<txnVars, retryVars, restVars>>
    /\ \E t \in Threads :
        /\ hpc[t] = "idle"
        /\ served + Cardinality(Running) < MaxThreadCalls
        /\ IndexOfKey(query_cache, SharedCall.cache_key) > 0
        /\ IsCacheValid(query_cache[IndexOfKey(query_cache, SharedCall.cache_key)], now)
        /\ hpc' = [hpc EXCEPT ![t] = "found"]
    /\ UNCHANGED <<cacheVars, hread, served>>

\* cache_entry['hits'] is loaded.
hit_load ==
    /\ UNCHANGED <<txnVars, retryVars, restVars>>
    /\ \E t \in Threads :
        /\ hpc[t] = "found"
        /\ hread' = [hread EXCEPT ![t] = query_cache[IndexOfKey(query_cache, SharedCall.cache_key)].hits]
        /\ hpc' = [hpc EXCEPT ![t] = "loaded"]
    /\ UNCHANGED <<cacheVars, served>>

\* The loaded value plus one is stored, last_accessed is set, and the entry's
\* result is returned.
hit_store ==
    /\ UNCHANGED <<txnVars, retryVars, restVars>>
    /\ \E t \in Threads :
        /\ hpc[t] = "loaded"
        /\ query_cache' = [query_cache EXCEPT
                              ![IndexOfKey(query_cache, SharedCall.cache_key)].hits = hread[t] + 1,
                              ![IndexOfKey(query_cache, SharedCall.cache_key)].last_accessed = now]
        /\ hpc' = [hpc EXCEPT ![t] = "idle"]
        /\ served' = served + 1
    /\ UNCHANGED <<now, advances, ncalls, version, first, lastCall, hread>>

HitsNext == hit_lookup \/ hit_load \/ hit_store

SpecHits == HitsInit /\ [][HitsNext]_vars

\* ------------------------------------------------------------------------
\* Threads running the whole wrapper, and invalidate_cache_pattern, at the same
\* time on the shared dict.  A thread may be preempted between the statements
\* of the wrapper: between `cache_key in query_cache` and
\* `query_cache[cache_key]`, between the validity test and `del`, and between
\* the two loops of invalidate_cache_pattern.  hpc is "present" after line 101,
\* "expired" after line 110, "miss" before line 118, "selected" after the
\* first loop of invalidate_cache_pattern, and "KeyError" when the thread's
\* call ended in a KeyError.  The hit path (one entry object, lines 106-109) is
\* taken in one step here; its counter race is followed in SpecHits.

\* The entry was stored at time 0 by an earlier call; it is still valid (the
\* clock reads 0) or has reached its expiry (the clock reads its TTL).
RaceInit ==
    /\ RestIdle
    /\ TxnIdle
    /\ RetryIdle
    /\ query_cache = << NewEntry(SharedCall.cache_key, SharedCall.results[0], SharedCall.query,
                                 SharedCall.func, 0) >>
    /\ now \in {0, SharedCall.func.ttl}
    /\ advances = 0
    /\ ncalls = 0
    /\ version = 0
    /\ first = {}
    /\ lastCall = NoCall
    /\ hpc = [t \in Threads |-> "idle"]
    /\ hread = [t \in Threads |-> 0]
    /\ served = 0

\* `del query_cache[key]` (and `query_cache[key]`) on the dict as it is now:
\* KeyError when the key is not in it.
Del(c, key) == IF IndexOfKey(c, key) = 0 THEN "KeyError" ELSE "deleted"

\* line 101: `if cache_key in query_cache`
race_lookup ==
    /\ UNCHANGED <<txnVars, retryVars, restVars>>
    /\ ncalls < MaxThreadCalls
    /\ ncalls' = ncalls + 1
    /\ \E t \in Threads :
        /\ hpc[t] = "idle"
        /\ hpc' = [hpc EXCEPT ![t] = IF IndexOfKey(query_cache, SharedCall.cache_key) > 0
                                     THEN "present" ELSE "miss"]
    /\ UNCHANGED <<query_cache, now, advances, version, first, lastCall, hread, served>>

\* lines 102-110: the entry is fetched and tested; a valid entry is counted,
\* touched and returned.
race_read ==
    /\ UNCHANGED <<txnVars, retryVars, restVars>>
    /\ \E t \in Threads :
        /\ hpc[t] = "present"
        /\ LET idx == IndexOfKey(query_cache, SharedCall.cache_key)
           IN  IF Del(query_cache, SharedCall.cache_key) = "KeyError"
               THEN /\ hpc' = [hpc EXCEPT ![t] = "KeyError"]
                    /\ UNCHANGED <<query_cache, served>>
               ELSE IF IsCacheValid(query_cache[idx], now)
               THEN /\ query_cache' = Touch(query_cache, idx, now)
                    /\ served' = served + 1
                    /\ hpc' = [hpc EXCEPT ![t] = "idle"]
               ELSE /\ hpc' = [hpc EXCEPT ![t] = "expired"]
                    /\ UNCHANGED <<query_cache, served>>
    /\ UNCHANGED <<now, advances, ncalls, version, first, lastCall, hread>>

\* line 112: `del query_cache[cache_key]`
race_delete ==
    /\ UNCHANGED <<txnVars, retryVars, restVars>>
    /\ \E t \in Threads :
        /\ hpc[t] = "expired"
        /\ IF Del(query_cache, SharedCall.cache_key) = "KeyError"
           THEN /\ hpc' = [hpc EXCEPT ![t] = "KeyError"]
                /\ UNCHANGED query_cache
           ELSE /\ query_cache' = Delete(query_cache, SharedCall.cache_key)
                /\ hpc' = [hpc EXCEPT ![t] = "miss"]
    /\ UNCHANGED <<now, advances, ncalls, version, first, lastCall, hread, served>>

\* lines 118-127: the function is executed, its result stored, the cache
\* cleaned up and the result returned.
race_store ==
    /\ UNCHANGED <<txnVars, retryVars, restVars>>
    /\ \E t \in Threads :
        /\ hpc[t] = "miss"
        /\ query_cache' = CleanupCache(Put(query_cache,
                                           NewEntry(SharedCall.cache_key, SharedCall.results[version],
                                                    SharedCall.query, SharedCall.func, now)),
                                       SharedCall.func.cap).cache
        /\ hpc' = [hpc EXCEPT ![t] = "idle"]
    /\ UNCHANGED <<now, advances, ncalls, version, first, lastCall, hread, served>>

\* invalidate_cache_pattern, first loop (lines 319-321): the matching keys
\* are collected.
race_invalidate_select ==
    /\ UNCHANGED <<txnVars, retryVars, restVars>>
    /\ \E t \in Threads, pattern \in InvalidatePatterns :
        /\ hpc[t] = "idle"
        /\ \E k \in DOMAIN query_cache : MatchesPattern(query_cache[k], pattern)
        /\ hpc' = [hpc EXCEPT ![t] = "selected"]
    /\ UNCHANGED <<cacheVars, hread, served>>

\* invalidate_cache_pattern, second loop (lines 323-325): each collected key
\* is deleted.
race_invalidate_delete ==
    /\ UNCHANGED <<txnVars, retryVars, restVars>>
    /\ \E t \in Threads :
        /\ hpc[t] = "selected"
        /\ IF Del(query_cache, SharedCall.cache_key) = "KeyError"
           THEN /\ hpc' = [hpc EXCEPT ![t] = "KeyError"]
                /\ UNCHANGED query_cache
           ELSE /\ query_cache' = Delete(query_cache, SharedCall.cache_key)
                /\ hpc' = [hpc EXCEPT ![t] = "idle"]
    /\ UNCHANGED <<now, advances, ncalls, version, first, lastCall, hread, served>>

RaceNext ==
    \/ race_lookup
    \/ race_read
    \/ race_delete
    \/ race_store
    \/ race_invalidate_select
    \/ race_invalidate_delete

SpecRace == RaceInit /\ [][RaceNext]_vars

\* ------------------------------------------------------------------------
\* Messaging app (Django-signals_orm-0x04/messaging): Message and Notification
\* rows and the signal handlers of signals.py.  A Message row is
\* [receiver, is_read, parent, exists] (parent 0: no parent_message); a
\* Notification row is [user, message, type, is_read, read_at] (message 0: no
\* message).  The ORM sends post_save after an INSERT (created = TRUE) or an
\* UPDATE (created = FALSE) and post_delete for every row a delete removes,
\* and a delete cascades along the ForeignKeys declared on_delete=CASCADE.
MaxMessages == 2

\* Notifications created directly (Notification.objects.create) in one run.
MaxNotifications == 3

Users == {"sender", "receiver"}

\* Mutant: the notification is created without its link to the message.
create_unlinked_notification(ns, id, instance, created) ==
    IF created
    THEN Append(ns, [user |-> instance.receiver, message |-> 0, type |-> "message",
                     is_read |-> FALSE, read_at |-> "null"])
    ELSE ns

\* Mutant: the handler does not look at `created`.
create_message_notification_always(ns, id, instance, created) ==
    Append(ns, [user |-> instance.receiver, message |-> id, type |-> "message",
                is_read |-> FALSE, read_at |-> "null"])

\* signals.py, create_message_notification
create_message_notification(ns, id, instance, created) ==
    IF created
    THEN Append(ns, [user |-> instance.receiver, message |-> id, type |-> "message",
                     is_read |-> FALSE, read_at |-> "null"])
    ELSE ns

\* Mutant: the notifications of the receiver are marked, whatever their message.
mark_receiver_notifications_read(ns, id, instance, created) ==
    IF ~created /\ instance.is_read
    THEN [k \in DOMAIN ns |->
             IF ns[k].user = instance.receiver THEN [ns[k] EXCEPT !.is_read = TRUE] ELSE ns[k]]
    ELSE ns

\* signals.py, mark_notification_read_on_message_read
mark_notification_read_on_message_read(ns, id, instance, created) ==
    IF ~created /\ instance.is_read
    THEN [k \in DOMAIN ns |->
             IF ns[k].message = id /\ ~ns[k].is_read THEN [ns[k] EXCEPT !.is_read = TRUE] ELSE ns[k]]
    ELSE ns

\* post_save: the receivers run in the order they were connected.
post_save(ns, id, instance, created) ==
    mark_notification_read_on_message_read(
        create_message_notification(ns, id, instance, created), id, instance, created)

\* Mutant: the notifications of the message's receiver are deleted.
delete_receiver_notifications(ns, id, instance) ==
    SelectSeq(ns, LAMBDA n : n.user # instance.receiver)

\* signals.py, delete_related_notifications
delete_related_notifications(ns, id, instance) ==
    SelectSeq(ns, LAMBDA n : n.message # id)

\* The rows a delete of the messages `ids` removes with them: their replies,
\* and the replies of those (parent_message is on_delete=CASCADE).
RECURSIVE Collect(_, _)
Collect(ms, ids) ==
    LET replies == {k \in DOMAIN ms : ms[k].exists /\ ms[k].parent \in ids}
    IN  IF replies \subseteq ids THEN ids ELSE Collect(ms, ids \cup replies)

\* post_delete for every deleted message.
RECURSIVE post_delete(_, _, _)
post_delete(ns, ms, ids) ==
    IF ids = {} THEN ns
    ELSE LET id == CHOOSE k \in ids : TRUE
         IN  post_delete(delete_related_notifications(ns, id, ms[id]), ms, ids \ {id})

\* The users of the tests' setUp exist; each got the welcome notification of
\* create_welcome_notification when it was created.
SigInit ==
    /\ TxnIdle
    /\ RetryIdle
    /\ CacheIdle
    /\ HitsIdle
    /\ KeyIdle
    /\ MemoIdle
    /\ GenIdle
    /\ msgs = <<>>
    /\ notes = << [user |-> "sender", message |-> 0, type |-> "system",
                   is_read |-> FALSE, read_at |-> "null"],
                  [user |-> "receiver", message |-> 0, type |-> "system",
                   is_read |-> FALSE, read_at |-> "null"] >>
    /\ sigOp = [op |-> "none", msg |-> 0]

Existing == {k \in DOMAIN msgs : msgs[k].exists}

\* Message.objects.create(...): INSERT, then post_save with created = TRUE.
message_create ==
    /\ UNCHANGED <<txnVars, retryVars, cacheVars, hitVars, keyVars, memoVars, genVars>>
    /\ Len(msgs) < MaxMessages
    /\ \E receiver \in Users, is_read \in BOOLEAN, parent \in Existing \cup {0} :
        LET instance == [receiver |-> receiver, is_read |-> is_read, parent |-> parent,
                         exists |-> TRUE]
            id == Len(msgs) + 1
        IN  /\ msgs' = Append(msgs, instance)
            /\ notes' = post_save(notes, id, instance, TRUE)
            /\ sigOp' = [op |-> "create", msg |-> id]

\* message.save() on a stored message, after setting is_read or another
\* field: UPDATE, then post_save with created = FALSE.
message_save ==
    /\ UNCHANGED <<txnVars, retryVars, cacheVars, hitVars, keyVars, memoVars, genVars>>
    /\ \E id \in Existing, is_read \in BOOLEAN :
        LET instance == [msgs[id] EXCEPT !.is_read = is_read]
        IN  /\ msgs' = [msgs EXCEPT ![id] = instance]
            /\ notes' = post_save(notes, id, instance, FALSE)
            /\ sigOp' = [op |-> "save", msg |-> id]

\* message.delete(): the message, its replies and the notifications linked to
\* any of them are deleted, then post_delete runs for each deleted message.
message_delete ==
    /\ UNCHANGED <<txnVars, retryVars, cacheVars, hitVars, keyVars, memoVars, genVars>>
    /\ \E id \in Existing :
        LET ids == Collect(msgs, {id})
        IN  /\ msgs' = [k \in DOMAIN msgs |->
                           IF k \in ids THEN [msgs[k] EXCEPT !.exists = FALSE] ELSE msgs[k]]
            /\ notes' = post_delete(SelectSeq(notes, LAMBDA n : n.message \notin ids), msgs, ids)
            /\ sigOp' = [op |-> "delete", msg |-> id]

\* signals.py, create_welcome_notification (post_save of User)
create_welcome_notification(ns, user, created) ==
    IF created
    THEN Append(ns, [user |-> user, message |-> 0, type |-> "system",
                     is_read |-> FALSE, read_at |-> "null"])
    ELSE ns

\* Notification.unread_count(user)
unread_count(ns, user) == Len(SelectSeq(ns, LAMBDA n : n.user = user /\ ~n.is_read))

\* Notification.mark_as_read on row k: nothing is written when it is read
\* already.
NotificationMarkAsRead(ns, k) ==
    IF ~ns[k].is_read THEN [ns EXCEPT ![k].is_read = TRUE, ![k].read_at = "set"] ELSE ns

\* notification.mark_as_read() (the mark_notification_read view, the tests).
notification_mark_as_read ==
    /\ UNCHANGED <<txnVars, retryVars, cacheVars, hitVars, keyVars, memoVars, genVars>>
    /\ \E k \in DOMAIN notes :
        /\ notes' = NotificationMarkAsRead(notes, k)
        /\ sigOp' = [op |-> "mark", msg |-> notes[k].message]
    /\ UNCHANGED msgs

\* The mark_all_notifications_read view: one UPDATE of is_read and read_at on
\* the unread notifications of the requesting user.
mark_all_notifications_read ==
    /\ UNCHANGED <<txnVars, retryVars, cacheVars, hitVars, keyVars, memoVars, genVars>>
    /\ \E user \in Users :
        /\ notes' = [k \in DOMAIN notes |->
                        IF notes[k].user = user /\ ~notes[k].is_read
                        THEN [notes[k] EXCEPT !.is_read = TRUE, !.read_at = "set"]
                        ELSE notes[k]]
        /\ sigOp' = [op |-> "mark_all", msg |-> 0]
    /\ UNCHANGED msgs

SigNext ==
    \/ message_create
    \/ message_save
    \/ message_delete

SpecSig == SigInit /\ [][SigNext]_vars

\* ------------------------------------------------------------------------
\* Properties of the connection scope and the transaction wrappers.
N(op, by, ok) ==
    Cardinality({i \in DOMAIN log : log[i].op = op /\ log[i].by = by /\ log[i].ok = ok})

Tried(op, by) == N(op, by, TRUE) + N(op, by, FALSE)

Exited(f) == \E i \in DOMAIN log : log[i].op = "exit" /\ log[i].by = f

ExitOf(f) == log[CHOOSE i \in DOMAIN log : log[i].op = "exit" /\ log[i].by = f]

OnStack(f) == \E i \in DOMAIN stack : stack[i] = f

Wrappers == {"rootw", "innerw"}

\* C1: whenever sqlite3.connect succeeded, the connection is closed exactly
\* once by the time the call ends (never twice on the way), whatever the
\* wrapped function raised and whether commit or rollback themselves failed.
C1_ClosedExactlyOnce ==
    /\ Tried("close", "conn") <= 1
    /\ (step = "done" /\ N("connect", "conn", TRUE) = 1)
            => (N("close", "conn", TRUE) = 1 /\ conn = "closed")

C1_Witness ==
    /\ step = "done"
    /\ plan.conn = "db_connection"
    /\ N("commit", "conn", FALSE) = 1
    /\ N("rollback", "conn", FALSE) = 1
    /\ N("close", "conn", TRUE) = 1

\* C2 (as stated): a transactional call ends committed once with the result
\* returned when the function returned, and rolled back with no commit and
\* the error re-raised when the function raised; never neither.
C2_OneTerminalState ==
    \A w \in Wrappers :
        (KindOf(w) = "transactional" /\ Exited(w) /\ Exited(BodyOf(w))) =>
            LET b == ExitOf(BodyOf(w))
                x == ExitOf(w)
            IN  /\ b.ok => /\ N("commit", w, TRUE) = 1
                           /\ Tried("rollback", w) = 0
                           /\ x.ok /\ x.err = b.err
                /\ ~b.ok => /\ N("rollback", w, TRUE) = 1
                            /\ Tried("commit", w) = 0
                            /\ ~x.ok /\ x.err = b.err

\* C2 (amended): the function returned -> exactly one commit attempt, and if
\* it succeeded the result is returned and no rollback is issued.  The
\* function raised an Exception, or the commit raised -> exactly one rollback
\* attempt, no successful commit, an error is raised, and it is the original
\* one when the rollback succeeded.  Neither committed nor rolled back happens
\* only when rollback() itself failed or the function raised a BaseException.
C2_TerminalStateAmended ==
    \A w \in Wrappers :
        (KindOf(w) = "transactional" /\ Exited(w) /\ Exited(BodyOf(w))) =>
            LET b == ExitOf(BodyOf(w))
                x == ExitOf(w)
                failed == IF b.ok THEN CommitError ELSE b.err
            IN  /\ Tried("commit", w) = (IF b.ok THEN 1 ELSE 0)
                /\ N("commit", w, TRUE) = 1 =>
                        (x.ok /\ x.err = b.err /\ Tried("rollback", w) = 0)
                /\ (N("commit", w, TRUE) = 0 /\ IsException(failed)) =>
                        /\ Tried("rollback", w) = 1
                        /\ ~x.ok
                        /\ N("rollback", w, TRUE) = 1 => x.err = failed
                /\ (N("commit", w, TRUE) = 0 /\ N("rollback", w, TRUE) = 0) =>
                        (N("rollback", w, FALSE) = 1 \/ ~IsException(failed))

C2_Witness ==
    /\ plan.root = "transactional"
    /\ Exited("rootw")
    /\ Exited("rootf")
    /\ ExitOf("rootf").ok
    /\ N("commit", "rootw", FALSE) = 1
    /\ N("rollback", "rootw", TRUE) = 1

\* The nested savepoint-wrapped function raised and the wrapper has re-raised.
NestedSavepointFailed ==
    /\ plan.inner = "savepoints"
    /\ Exited("innerf") /\ ~ExitOf("innerf").ok
    /\ Exited("innerw")

C9_NestedCallKeepsTransaction ==
    (plan.inner # "none" /\ Exited("innerw") /\ ExitOf("innerw").ok) =>
        /\ OnStack("rootf") => (db.committed = {} /\ db.inTxn)
        /\ N("commit", "rootw", TRUE) + N("commit", "innerw", TRUE) <= 1
        /\ (Exited("rootw") /\ ~ExitOf("rootw").ok)
                => Row("innerf", "pre") \notin db.committed

Callee(w) == IF w = "conn" THEN (IF plan.root = "none" THEN "rootf" ELSE "rootw") ELSE BodyOf(w)

\* C10: whenever the function a wrapper wraps raised, the wrapper raises that
\* same error to its caller, whatever the outcome of its cleanup statements.
C10_ErrorNeverReplaced ==
    \A w \in {"conn", "rootw", "innerw"} :
        (Exited(w) /\ Exited(Callee(w)) /\ ~ExitOf(Callee(w)).ok)
            => ExitOf(w).err = ExitOf(Callee(w)).err

\* C5: after a store through either decorator the cache holds at most as
\* many entries as the capacity the decorator was configured with.
C5_SizeWithinCapacity ==
    lastCall.stored => Len(query_cache) <= lastCall.cap

C5_Witness ==
    /\ lastCall.stored
    /\ lastCall.func = "fetch_users_with_cache"
    /\ Len(query_cache) = DefaultMaxEntries - ExtraRemoved

\* C6 (as stated): a call for a read-shaped query made within the TTL of the
\* first call, on unchanged data, returns exactly what the first call
\* returned and does not invoke the wrapped function.
C6_RepeatedCallIdentical ==
    lastCall.within =>
        /\ lastCall.returned = lastCall.firstRes
        /\ ~lastCall.invoked

\* What a later call gets for a result the first call returned: rows as dicts.
AsStored(r) ==
    [shape |-> IF r.shape = "rows" THEN "dicts" ELSE IF r.shape = "row" THEN "dict" ELSE r.shape,
     data  |-> r.data]

\* C6 (amended): the same, while the entry the first call stored is still in
\* the cache; the later call returns the stored copy of the first result
\* (sqlite3.Row objects converted to dicts, any other value as it was).
C6_RepeatedCallServedFromEntry ==
    (lastCall.within /\ lastCall.present) =>
        /\ lastCall.path = "hit"
        /\ ~lastCall.invoked
        /\ lastCall.raised = "none"
        /\ lastCall.returned = AsStored(lastCall.firstRes)

C6_Witness ==
    /\ lastCall.within
    /\ lastCall.present
    /\ lastCall.path = "hit"
    /\ lastCall.firstRes.shape = "rows"
    /\ lastCall.returned.shape = "dicts"

\* C7: a lookup made at or after the store time of an entry plus its TTL does
\* not return the entry: the call is a miss, the wrapped function is invoked,
\* and when it returns a fresh entry is stored; no entry for the key older
\* than this call remains.
C7_ExpiredEntryNotServed ==
    (lastCall.present /\ lastCall.at >= lastCall.entryAt + lastCall.ttl) =>
        /\ lastCall.path = "miss"
        /\ lastCall.invoked
        /\ lastCall.raised # "func" => lastCall.stored
        /\ \A k \in DOMAIN query_cache :
               query_cache[k].key = lastCall.key => query_cache[k].cached_at = lastCall.at

C7_Witness ==
    /\ lastCall.present
    /\ lastCall.at = lastCall.entryAt + lastCall.ttl
    /\ lastCall.stored
    /\ \E k \in DOMAIN query_cache :
           query_cache[k].key = lastCall.key /\ query_cache[k].cached_at = lastCall.at

\* C11: a transaction wrapper called with no arguments, or with a first
\* argument that is no connection, raises the invalid-argument error
\* (ValueError) without calling the wrapped function and without issuing a
\* commit, rollback or savepoint statement.
C11_InvalidArgumentRejected ==
    (plan.arg # "conn" /\ step = "done") =>
        /\ outcome = ArgumentError
        /\ \A i \in DOMAIN log : log[i].op = "exit" /\ log[i].by = "rootw"

\* A permanent store error: a constraint violation or a malformed request.
PermanentStoreError(e) ==
    \/ e.type = "IntegrityError"
    \/ e.type = "OperationalError" /\ e.msg = "no such table"

\* C12: under the default transient_errors of retry_on_failure, an invocation
\* that raises a permanent store error is the only one: the error is raised
\* to the caller at once and no wait follows.
C12_PermanentStoreErrorNotRetried ==
    (policy.kind = "retry_on_failure" /\ policy.transient = DefaultTransient) =>
        \A i \in DOMAIN errs :
            PermanentStoreError(errs[i]) =>
                /\ i = Len(errs)
                /\ calls = i
                /\ rstate = "raised"
                /\ rerr = errs[i]

RECURSIVE Pow(_, _)
Pow(b, n) == IF n = 0 THEN 1 ELSE b * Pow(b, n - 1)

\* min(baseDelay * backoffMultiplier^(k-1), maxDelay); smart_retry takes no
\* maximum delay.
ScheduledDelay(p, k) ==
    LET raw == (p.delay * Pow(p.backoff[1], k - 1)) \div Pow(p.backoff[2], k - 1)
    IN  IF p.kind = "smart_retry" THEN raw ELSE Min(raw, p.max_delay)

\* C13: the pre-jitter delay of the k-th wait is the scheduled delay, no wait
\* exceeds max_delay before or after jitter, and the jittered wait does not
\* exceed the pre-jitter delay.
C13_DelaySchedule ==
    /\ \A k \in DOMAIN waits :
        /\ waits[k] = ScheduledDelay(policy, k)
        /\ policy.kind = "retry_on_failure" => waits[k] <= policy.max_delay
    /\ rstate = "sleeping" =>
        /\ slept <= waits[Len(waits)]
        /\ policy.kind = "retry_on_failure" => slept <= policy.max_delay

\* C14: an operation that fails with a transient error f times (f at most
\* retries) and then returns was invoked f + 1 times with f waits and the
\* caller gets the result and no error; the loop never gives up while fewer
\* than retries + 1 invocations failed; with retries 3, delay 1 s, factor 2.0
\* and f = 2 the pre-jitter waits are 1 s then 2 s.
C14_SucceedsAfterTransientFailures ==
    /\ rstate = "returned" =>
        /\ calls = Len(errs) + 1
        /\ Len(waits) = Len(errs)
        /\ Len(errs) <= policy.retries
        /\ rerr = NoRaised
        /\ \A i \in DOMAIN errs : Retryable(policy, errs[i])
    /\ ExhaustedOnTransient => Len(errs) = policy.retries + 1
    /\ ( /\ rstate = "returned"
         /\ policy.kind = "retry_on_failure"
         /\ policy.delay = TicksPerSecond
         /\ policy.backoff = <<2, 1>>
         /\ Len(errs) = 2 ) => waits = <<TicksPerSecond, 2 * TicksPerSecond>>

C14_Witness ==
    /\ rstate = "returned"
    /\ policy.kind = "retry_on_failure"
    /\ policy.retries = 3
    /\ policy.delay = TicksPerSecond
    /\ policy.backoff = <<2, 1>>
    /\ calls = 3
    /\ waits = <<TicksPerSecond, 2 * TicksPerSecond>>

\* C15: while the retry loop sleeps, the call holds no open connection and
\* no open transaction.
C15_NothingHeldAcrossWait ==
    rstate = "sleeping" => (conn # "open" /\ ~db.inTxn)

C17_NoPartialAcquisition ==
    N("connect", "conn", FALSE) = 1 =>
        /\ \A i \in DOMAIN log : log[i].op \in {"connect", "exit"} /\ log[i].by = "conn"
        /\ conn = "none"
        /\ db = EmptyDb
        /\ step = "done" => outcome = ConnectError

C17_Witness ==
    /\ N("connect", "conn", FALSE) = 1
    /\ plan.conn = "configurable"
    /\ step = "done"
    /\ outcome = ConnectError

\* The decorator configuration of the function the last call went through
\* checks that the query is a read.
ChecksReadOnly ==
    \E f \in Decorated : f.name = lastCall.func /\ (f.kind = "cache_query" \/ f.read_only)

\* C18 (as stated): a call with a write-shaped query bypasses the cache under
\* every decorator and configuration: the wrapped function is invoked, no
\* cached result is returned and the cache is left as it was.
C18_WriteAlwaysBypasses ==
    lastCall.write =>
        /\ lastCall.path = "bypass"
        /\ lastCall.invoked
        /\ ~lastCall.touched

\* C18 (amended): the same under cache_query and under cache_query_advanced
\* with cache_read_only=True.
C18_WriteBypassesWhenReadOnly ==
    (lastCall.write /\ ChecksReadOnly) =>
        /\ lastCall.path = "bypass"
        /\ lastCall.invoked
        /\ ~lastCall.touched

C18_Witness ==
    /\ lastCall.write
    /\ lastCall.func = "count_ttl60"
    /\ lastCall.path = "bypass"
    /\ lastCall.invoked
    /\ Len(query_cache) = 1

\* Keys of the entries the cache may hold before the calls observed.
FillerKeys == {Filler(k).key : k \in 1..DefaultMaxEntries}

\* C19: a miss on which the wrapped function raised stores nothing and leaves
\* no entry for its key, and the error reaches the caller; every entry in the
\* cache was stored by a call whose execution returned, and holds the stored
\* copy of what that execution returned.
C19_NoEntryFromFailedCall ==
    /\ (lastCall.path = "miss" /\ lastCall.raised = "func") =>
        /\ ~lastCall.stored
        /\ lastCall.returned = NoResult
        /\ \A k \in DOMAIN query_cache : query_cache[k].key # lastCall.key
    /\ \A k \in DOMAIN query_cache :
        \/ query_cache[k].key \in FillerKeys
        \/ \E r \in first :
            /\ r.key = query_cache[k].key
            /\ r.at = query_cache[k].cached_at
            /\ query_cache[k].result = AsStored(r.result)

C19_Witness ==
    /\ lastCall.path = "miss"
    /\ lastCall.raised = "func"
    /\ lastCall.present
    /\ query_cache # <<>>

\* C20: whenever no thread is inside the wrapper, the entry's hit counter
\* equals the number of calls served from the entry since it was stored.
C20_NoLostHit ==
    (Running = {}) => query_cache[1].hits = served

\* C21: under any interleaving of lookups, stores, expiry removals and
\* invalidations by concurrent threads, no call ends in a KeyError raised
\* because another thread removed the entry it was about to read or delete.
C21_NoDoubleRemoval ==
    \A t \in Threads : hpc[t] # "KeyError"

\* C22 (as stated): with capacity 2 and two entries in the cache, neither of
\* them hit, the store of a third fingerprint completes without error and
\* leaves the second entry and the new one: the oldest entry is evicted.
C22_ThirdStoreEvictsOldest ==
    [][ ( /\ lastCall'.stored
          /\ lastCall'.cap = 2
          /\ ~lastCall'.present
          /\ Len(query_cache) = 2
          /\ \A k \in DOMAIN query_cache : query_cache[k].hits = 0 )
        => ( /\ lastCall'.raised = "none"
             /\ Len(query_cache') = 2
             /\ query_cache'[1] = query_cache[2]
             /\ query_cache'[2].key = lastCall'.key ) ]_vars

\* Entries of the cache before a step that are gone after it, the entry of
\* the call's own key aside (it is replaced, not evicted).
Evicted ==
    {k \in DOMAIN query_cache :
        /\ query_cache[k].key # lastCall'.key
        /\ \A j \in DOMAIN query_cache' : query_cache'[j].key # query_cache[k].key}

\* C23: the cleanup after a store never removes an entry while keeping one
\* whose last access is older, and a hit gives the entry a last access that
\* is not older than any other entry's, so that the cleanup takes every entry
\* with an older last access before it.
C23_EvictsOldestFirst ==
    [][ /\ lastCall'.stored =>
            \A k \in Evicted, j \in DOMAIN query_cache' :
                query_cache[k].last_accessed <= query_cache'[j].last_accessed
        /\ lastCall'.path = "hit" =>
            \A k \in DOMAIN query_cache' :
                query_cache'[k].key = lastCall'.key =>
                    /\ query_cache'[k].last_accessed = now
                    /\ \A j \in DOMAIN query_cache' :
                           query_cache'[j].last_accessed <= query_cache'[k].last_accessed ]_vars

\* The entry stored first was hit, and the next store took the eleven oldest
\* of the others and kept it.
C23_Witness ==
    /\ lastCall.stored
    /\ Len(query_cache) = DefaultMaxEntries - ExtraRemoved
    /\ query_cache[1].key = GenerateCacheKey(SelectA, NoParams, "fetch_users_with_cache")
    /\ query_cache[1].hits = 1
    /\ query_cache[1].last_accessed > query_cache[2].last_accessed
    /\ \A k \in DOMAIN query_cache : query_cache[k].key # Filler(2).key

\* C24: a call that finds a non-expired entry for its key adds one to that
\* entry's hit counter and sets its last access to the time of the call; the
\* entry's result, expiry and other fields, every other entry and the number
\* of entries stay as they were, the entry's result is returned and the
\* wrapped function is not invoked.
C24_HitFrame ==
    [][ LET idx == IndexOfKey(query_cache, lastCall'.key)
        IN  (lastCall'.key # <<>> /\ idx > 0 /\ now < query_cache[idx].expires_at) =>
                /\ lastCall'.path = "hit"
                /\ ~lastCall'.invoked
                /\ lastCall'.returned = query_cache[idx].result
                /\ Len(query_cache') = Len(query_cache)
                /\ \A k \in DOMAIN query_cache :
                       query_cache'[k] =
                           IF k = idx
                           THEN [query_cache[k] EXCEPT !.hits = query_cache[k].hits + 1,
                                                        !.last_accessed = now]
                           ELSE query_cache[k] ]_vars

\* A hit 30 seconds after the store, with 89 other entries in the cache.
C24_Witness ==
    /\ lastCall.path = "hit"
    /\ Len(query_cache) = DefaultMaxEntries - ExtraRemoved
    /\ \E k \in DOMAIN query_cache :
           /\ query_cache[k].key = lastCall.key
           /\ query_cache[k].hits = 1
           /\ query_cache[k].cached_at = 0
           /\ query_cache[k].last_accessed = 30
           /\ query_cache[k].expires_at = DefaultTtl

\* Two parameter values are the same when they are of the same kind and hold
\* the same items: in the same order for a tuple, in any order for a dict.
SameParams(p, q) ==
    /\ p.kind = q.kind
    /\ IF p.kind = "dict"
       THEN {p.items[i] : i \in DOMAIN p.items} = {q.items[i] : i \in DOMAIN q.items}
       ELSE p.items = q.items

SameDescriptor(d, e) ==
    /\ d.func_name = e.func_name
    /\ d.query.class = e.query.class
    /\ SameParams(d.params, e.params)

\* C25: two calls of _generate_cache_key return the same key exactly when
\* the function names are equal, the query texts differ at most in letter
\* case and runs of whitespace, and the parameters hold the same values
\* (dict items in any order).
C25_FingerprintEquivalence ==
    kprints # <<>> =>
        (kprints[1] = kprints[2] <=> SameDescriptor(kpair[1], kpair[2]))

\* Same key for texts in different case and spacing and dicts in different
\* key order.
C25_Witness ==
    /\ kprints # <<>>
    /\ kprints[1] = kprints[2]
    /\ kpair[1].query.text # kpair[2].query.text
    /\ kpair[1].params.kind = "dict"
    /\ kpair[1].params # kpair[2].params

\* The pattern occurs in the text, letter case aside.
ContainsFolded(text, pattern) ==
    \E k \in 1..(Len(text) - Len(pattern) + 1) :
        Upper(SubSeq(text, k, k + Len(pattern) - 1)) = Upper(pattern)

\* C26: invalidate_cache_pattern(p) removes the entries whose stored query
\* text contains p, letter case aside, and leaves the other entries as they
\* were and in place; the next call for a key it removed is a miss that
\* invokes the wrapped function.
C26_InvalidateFrame ==
    [][ /\ lastCall'.path = "invalidate" =>
            query_cache' = SelectSeq(query_cache, LAMBDA e : ~ContainsFolded(e.query, lastCall'.key))
        /\ lastCall'.invalidated =>
            /\ lastCall'.path = "miss"
            /\ lastCall'.invoked ]_vars

\* After an invalidation that removed an entry stored under an upper-case
\* spelling and kept others, the call for the removed key was executed again.
C26_Witness ==
    /\ lastCall.invalidated
    /\ lastCall.path = "miss"
    /\ lastCall.invoked
    /\ lastCall.stored
    /\ Len(query_cache) > 1

\* C27: a call served from the cache has acquired no connection and has not
\* invoked the wrapped function.
C27_HitBeforeLowerLayers ==
    lastCall.path = "hit" =>
        /\ ~lastCall.connected
        /\ ~lastCall.invoked

\* ------------------------------------------------------------------------
\* Messages are created and saved while notifications are marked read, one
\* at a time or all of a user's at once.
ReadNext ==
    \/ message_create
    \/ message_save
    \/ notification_mark_as_read
    \/ mark_all_notifications_read

SpecRead == SigInit /\ [][ReadNext]_vars

\* ------------------------------------------------------------------------
\* NotificationModelTest (tests.py): setUp creates the user, then the sender,
\* then one message from the sender to the user; the handlers of signals.py
\* run for each of the three saves.  The tests then create notifications
\* directly and mark them read.
FixtureMessage == [receiver |-> "receiver", is_read |-> FALSE, parent |-> 0, exists |-> TRUE]

FixtureInit ==
    /\ TxnIdle
    /\ RetryIdle
    /\ CacheIdle
    /\ HitsIdle
    /\ KeyIdle
    /\ MemoIdle
    /\ GenIdle
    /\ msgs = << FixtureMessage >>
    /\ notes = post_save(
                  create_welcome_notification(
                      create_welcome_notification(<<>>, "receiver", TRUE), "sender", TRUE),
                  1, FixtureMessage, TRUE)
    /\ sigOp = [op |-> "none", msg |-> 0]

\* The notifications the handlers created during setUp.
FixtureNotes == 3

\* Notification.objects.create(user=..., notification_type='message', ...),
\* with or without message=self.message.  No receiver is connected to
\* post_save of Notification.
notification_create ==
    /\ UNCHANGED <<txnVars, retryVars, cacheVars, hitVars, keyVars, memoVars, genVars>>
    /\ Len(notes) < FixtureNotes + MaxNotifications
    /\ \E user \in Users, message \in Existing \cup {0} :
        /\ notes' = Append(notes, [user |-> user, message |-> message, type |-> "message",
                                   is_read |-> FALSE, read_at |-> "null"])
        /\ sigOp' = [op |-> "notify", msg |-> message]
    /\ UNCHANGED msgs

FixtureNext ==
    \/ notification_create
    \/ notification_mark_as_read

SpecFixture == FixtureInit /\ [][FixtureNext]_vars

\* ------------------------------------------------------------------------
\* Threads: parent_message of a stored message is set to a stored message
\* (itself and its own replies included) or cleared, and the message saved.
message_reparent ==
    /\ UNCHANGED <<txnVars, retryVars, cacheVars, hitVars, keyVars, memoVars, genVars>>
    /\ \E id \in Existing, parent \in Existing \cup {0} :
        LET instance == [msgs[id] EXCEPT !.parent = parent]
        IN  /\ msgs' = [msgs EXCEPT ![id] = instance]
            /\ notes' = post_save(notes, id, instance, FALSE)
            /\ sigOp' = [op |-> "reparent", msg |-> id]

ThreadNext ==
    \/ message_create
    \/ message_delete
    \/ message_reparent

SpecThread == SigInit /\ [][ThreadNext]_vars

\* The loop shared by get_thread_root and thread_depth:
\* `while current.parent_message: depth += 1; current = current.parent_message`.
\* The rows do not change while it runs, so once it comes to a message it has
\* been at before it repeats the same steps for ever (ends = FALSE).
RECURSIVE Walk(_, _, _, _)
Walk(ms, current, depth, seen) ==
    IF ms[current].parent = 0
    THEN [ends |-> TRUE, root |-> current, depth |-> depth]
    ELSE IF ms[current].parent \in seen
    THEN [ends |-> FALSE, root |-> 0, depth |-> 0]
    ELSE Walk(ms, ms[current].parent, depth + 1, seen \cup {ms[current].parent})

\* What a method that never returns is given as its value.
Diverges == -1

\* Message.get_thread_root: the message the loop stops at.
get_thread_root(ms, id) ==
    LET w == Walk(ms, id, 0, {id}) IN IF w.ends THEN w.root ELSE Diverges

\* Message.thread_depth: the number of passes of the loop.
thread_depth(ms, id) ==
    LET w == Walk(ms, id, 0, {id}) IN IF w.ends THEN w.depth ELSE Diverges

\* ------------------------------------------------------------------------
\* memoize (0x03-Unittests_and_integration_tests/test_client.py): a method
\* turned into a property that stores its result in an attribute of the
\* instance.  Two instances of one class with one memoized method; so that a
\* cached value can be told from a fresh one, the method's result names the
\* instance and the number of the invocation that produced it.
MaxAccesses == 4

MemoInstances == {"a", "b"}

MemoFunc == "a_property"

\* attr_name = f'_{func.__name__}'
AttrName(func_name) == "_" \o func_name

\* Mutant: the attribute is never found.
HasAttrNever(dict, name) == FALSE

HasAttr(dict, name) == name \in DOMAIN dict

SetAttr(dict, name, value) ==
    [n \in DOMAIN dict \cup {name} |-> IF n = name THEN value ELSE dict[n]]

GetAttr(dict, name) == dict[name]

\* func(self), on its n-th invocation for the instance.
MethodResult(obj, n) == [of |-> obj, run |-> n]

\* The access raised: no value.
NoMethodResult == [of |-> "none", run |-> 0]

\* The instances have been constructed; nothing has set the attribute.
MemoInit ==
    /\ TxnIdle
    /\ RetryIdle
    /\ CacheIdle
    /\ HitsIdle
    /\ KeyIdle
    /\ SigIdle
    /\ GenIdle
    /\ mobjs = [o \in MemoInstances |-> <<>>]
    /\ minvoked = [o \in MemoInstances |-> 0]
    /\ maccesses = <<>>

\* One access obj.a_property: the wrapper runs func when the attribute is
\* missing and stores what it returned; func may raise, and then nothing is
\* stored and the error leaves the wrapper.
memo_access ==
    /\ UNCHANGED <<txnVars, retryVars, cacheVars, hitVars, keyVars, sigVars, genVars>>
    /\ Len(maccesses) < MaxAccesses
    /\ \E obj \in MemoInstances, ok \in BOOLEAN :
        LET attr_name == AttrName(MemoFunc)
            result    == MethodResult(obj, minvoked[obj] + 1)
        IN  IF ~HasAttr(mobjs[obj], attr_name)
            THEN /\ minvoked' = [minvoked EXCEPT ![obj] = @ + 1]
                 /\ mobjs' = IF ok
                             THEN [mobjs EXCEPT ![obj] = SetAttr(@, attr_name, result)]
                             ELSE mobjs
                 /\ maccesses' = Append(maccesses,
                        [obj |-> obj, invoked |-> TRUE,
                         outcome |-> IF ok THEN "returned" ELSE "raised",
                         value |-> IF ok THEN GetAttr(mobjs'[obj], attr_name) ELSE NoMethodResult])
            ELSE /\ UNCHANGED <<mobjs, minvoked>>
                 /\ maccesses' = Append(maccesses,
                        [obj |-> obj, invoked |-> FALSE, outcome |-> "returned",
                         value |-> GetAttr(mobjs[obj], attr_name)])

SpecMemo == MemoInit /\ [][memo_access]_vars

\* ------------------------------------------------------------------------
\* Streaming generators (python-generators-0x00): stream_users,
\* stream_users_in_batches and stream_user_ages have the same shape: the
\* connection is taken before the try statement, the cursor is created,
\* the query executed and the rows fetched and yielded inside it, `except
\* Exception` prints, and `finally` closes the cursor and the connection.
MaxRows == 3

BatchSizes == {1, 2}

Generators ==
    { [kind |-> "stream_users", batch_size |-> 1],
      [kind |-> "stream_user_ages", batch_size |-> 1] }
    \cup { [kind |-> "stream_users_in_batches", batch_size |-> b] : b \in BatchSizes }

\* connect_to_prodev has returned a connection and the try statement is
\* entered; `cursor` has not been assigned.
GenInit ==
    /\ TxnIdle
    /\ RetryIdle
    /\ CacheIdle
    /\ HitsIdle
    /\ KeyIdle
    /\ SigIdle
    /\ MemoIdle
    /\ \E g \in Generators, n \in 0..MaxRows :
        gen = [pc |-> "cursor", kind |-> g.kind, batch_size |-> g.batch_size, rows |-> n,
               cursor |-> "unbound", connection |-> "open", yielded |-> 0, ended |-> "no"]
    /\ cleanup = [cursor |-> 0, connection |-> 0, raised |-> "none"]

\* The finally clause: `if cursor: cursor.close()`, `if connection:
\* connection.close()`.  Reading the local `cursor` before it was assigned
\* raises UnboundLocalError, which leaves the generator before the
\* connection is closed.  `why` records how the try statement was left.
Finally(g, c, why) ==
    IF g.cursor = "unbound"
    THEN [gen |-> [g EXCEPT !.pc = "raised", !.ended = why],
          cleanup |-> [c EXCEPT !.raised = "UnboundLocalError"]]
    ELSE [gen |-> [g EXCEPT !.pc = "finished", !.ended = why,
                            !.cursor = "closed", !.connection = "closed"],
          cleanup |-> [c EXCEPT !.cursor = @ + 1, !.connection = @ + 1]]

\* cursor = connection.cursor(): the cursor is assigned, or the call raises,
\* the except clause prints and the finally clause runs.
gen_cursor ==
    /\ UNCHANGED <<txnVars, retryVars, cacheVars, hitVars, keyVars, sigVars, memoVars>>
    /\ gen.pc = "cursor"
    /\ \E ok \in BOOLEAN :
        IF ok
        THEN /\ gen' = [gen EXCEPT !.pc = "execute", !.cursor = "open"]
             /\ UNCHANGED cleanup
        ELSE /\ gen' = Finally(gen, cleanup, "cursor error").gen
             /\ cleanup' = Finally(gen, cleanup, "cursor error").cleanup

\* cursor.execute(...)
gen_execute ==
    /\ UNCHANGED <<txnVars, retryVars, cacheVars, hitVars, keyVars, sigVars, memoVars>>
    /\ gen.pc = "execute"
    /\ \E ok \in BOOLEAN :
        IF ok
        THEN /\ gen' = [gen EXCEPT !.pc = "fetch"]
             /\ UNCHANGED cleanup
        ELSE /\ gen' = Finally(gen, cleanup, "execute error").gen
             /\ cleanup' = Finally(gen, cleanup, "execute error").cleanup

\* cursor.fetchone() / cursor.fetchmany(batch_size): no row left breaks out
\* of the loop; otherwise the rows are converted and yielded; the fetch or the
\* conversion may raise.
gen_fetch ==
    /\ UNCHANGED <<txnVars, retryVars, cacheVars, hitVars, keyVars, sigVars, memoVars>>
    /\ gen.pc = "fetch"
    /\ \E ok \in BOOLEAN :
        IF ok /\ gen.rows > 0
        THEN /\ gen' = [gen EXCEPT !.pc = "yielded",
                                   !.rows = IF @ < gen.batch_size THEN 0 ELSE @ - gen.batch_size,
                                   !.yielded = @ + 1]
             /\ UNCHANGED cleanup
        ELSE /\ gen' = Finally(gen, cleanup, IF ok THEN "exhausted" ELSE "fetch error").gen
             /\ cleanup' = Finally(gen, cleanup, IF ok THEN "exhausted" ELSE "fetch error").cleanup

\* The consumer asks for the next item: the loop goes on.
gen_next ==
    /\ UNCHANGED <<txnVars, retryVars, cacheVars, hitVars, keyVars, sigVars, memoVars>>
    /\ gen.pc = "yielded"
    /\ gen' = [gen EXCEPT !.pc = "fetch"]
    /\ UNCHANGED cleanup

\* The consumer abandons the generator: close() (or its collection) raises
\* GeneratorExit at the yield; `except Exception` does not catch it and the
\* finally clause runs.
gen_close ==
    /\ UNCHANGED <<txnVars, retryVars, cacheVars, hitVars, keyVars, sigVars, memoVars>>
    /\ gen.pc = "yielded"
    /\ gen' = Finally(gen, cleanup, "abandoned").gen
    /\ cleanup' = Finally(gen, cleanup, "abandoned").cleanup

GenNext ==
    \/ gen_cursor
    \/ gen_execute
    \/ gen_fetch
    \/ gen_next
    \/ gen_close

SpecGen == GenInit /\ [][GenNext]_vars

\* ------------------------------------------------------------------------
\* Properties of the messaging app's signal handlers.

\* C28: creating a message appends one unread notification of type
\* 'message' for the message's receiver, linked to the message, and changes
\* no other notification; saving a stored message adds and removes no
\* notification and changes no notification's user, message or type.
C28_NotificationOnCreateOnly ==
    [][ /\ sigOp'.op = "create" =>
            notes' = Append(notes, [user |-> msgs'[sigOp'.msg].receiver, message |-> sigOp'.msg,
                                    type |-> "message", is_read |-> FALSE, read_at |-> "null"])
        /\ sigOp'.op = "save" =>
            /\ Len(notes') = Len(notes)
            /\ \A k \in DOMAIN notes :
                   /\ notes'[k].user = notes[k].user
                   /\ notes'[k].message = notes[k].message
                   /\ notes'[k].type = notes[k].type ]_vars

\* A message was created and then saved: it has its one notification.
C28_Witness ==
    /\ sigOp = [op |-> "save", msg |-> 1]
    /\ msgs[1].exists
    /\ Len(SelectSeq(notes, LAMBDA n : n.message = 1 /\ n.type = "message"
                                        /\ n.user = msgs[1].receiver)) = 1
    /\ Len(notes) = 3

\* Every notification's message link is empty or refers to a stored message.
LinksValid(ns, ms) ==
    \A k \in DOMAIN ns : ns[k].message = 0 \/ (ns[k].message \in DOMAIN ms /\ ms[ns[k].message].exists)

\* C29 (as stated): after message.delete() no notification is linked to the
\* message, every link is empty or refers to a stored message, and the
\* notifications of every other message are as they were.
C29_DeleteRemovesOnlyOwn ==
    [][ sigOp'.op = "delete" =>
            /\ LinksValid(notes', msgs')
            /\ notes' = SelectSeq(notes, LAMBDA n : n.message # sigOp'.msg) ]_vars

\* C29 (amended): the same, where the messages deleted are the message and
\* the replies below it; the notifications of the messages still stored, and
\* those with no message, are as they were.
C29_DeleteRemovesCascaded ==
    [][ /\ LinksValid(notes', msgs')
        /\ sigOp'.op = "delete" =>
            /\ ~msgs'[sigOp'.msg].exists
            /\ notes' = SelectSeq(notes, LAMBDA n : n.message = 0 \/ msgs'[n.message].exists)
            /\ \A k \in DOMAIN msgs :
                   (msgs[k].exists /\ ~msgs'[k].exists) =>
                       (k = sigOp'.msg \/ (msgs[k].parent # 0 /\ ~msgs'[msgs[k].parent].exists)) ]_vars

\* A message with a reply was deleted: both notifications are gone, the
\* welcome notifications are still there.
C29_Witness ==
    /\ sigOp = [op |-> "delete", msg |-> 1]
    /\ Len(msgs) = 2
    /\ msgs[2].parent = 1
    /\ ~msgs[2].exists
    /\ Len(notes) = 2

\* C30: saving a stored message with is_read = TRUE marks every notification
\* linked to it read and changes no other notification (nor any other
\* field); creating a message changes no notification that was there.
C30_ReadMarksOwnNotifications ==
    [][ /\ (sigOp'.op = "save" /\ msgs'[sigOp'.msg].is_read) =>
            notes' = [k \in DOMAIN notes |->
                         IF notes[k].message = sigOp'.msg
                         THEN [notes[k] EXCEPT !.is_read = TRUE]
                         ELSE notes[k]]
        /\ sigOp'.op = "create" => SubSeq(notes', 1, Len(notes)) = notes ]_vars

\* The first message was saved as read: its notification is read, the one of
\* the second message to the same user is not.
C30_Witness ==
    /\ sigOp = [op |-> "save", msg |-> 1]
    /\ Len(msgs) = 2
    /\ msgs[1].is_read
    /\ msgs[1].receiver = msgs[2].receiver
    /\ \E k \in DOMAIN notes : notes[k].message = 1 /\ notes[k].is_read
    /\ \E k \in DOMAIN notes : notes[k].message = 2 /\ ~notes[k].is_read


\* ------------------------------------------------------------------------
\* Properties of the retry loop's ending.

\* C33: for retries >= 0 the wrapper ends by returning after an invocation
\* that returned, or by raising the error the function raised on its last
\* invocation (a signal that interrupts time.sleep aside); the RuntimeError
\* after the loop is never raised, and the function is invoked at least once
\* and at most retries + 1 times.
C33_EndsWithResultOrLastError ==
    policy.retries >= 0 =>
        /\ rerr # UnexpectedEnd
        /\ calls <= policy.retries + 1
        /\ rstate \in {"returned", "raised"} => calls >= 1
        /\ rstate = "returned" => Len(errs) = calls - 1
        /\ (rstate = "raised" /\ rerr # SleepInterrupt) =>
              /\ Len(errs) = calls
              /\ rerr = errs[Len(errs)]

C33_Witness ==
    /\ policy.retries = 3
    /\ calls = 4
    /\ rstate = "raised"
    /\ rerr = errs[4]

\* C34: in retry_on_failure every re-invocation follows exactly one wait: no
\* error is handled by the branch that continues without sleeping, so before
\* each pass of the loop there have been as many waits as invocations.
C34_WaitBeforeEveryRetry ==
    policy.kind = "retry_on_failure" =>
        /\ \A e \in RaisedErrors, a \in 0..MaxRetries :
              RetryDecision(policy, e, a) # "continue"
        /\ rstate = "loop" => Len(waits) = calls
        /\ Len(waits) <= calls
        /\ calls >= 1 => Len(waits) >= calls - 1

C34_Witness ==
    /\ policy.kind = "retry_on_failure"
    /\ policy.exceptions = policy.transient
    /\ calls = 2
    /\ Len(waits) = 1
    /\ errs[1].type \in policy.transient \cap policy.exceptions

\* ------------------------------------------------------------------------
\* Properties of the capacity eviction a store triggers.

\* C35 (as stated): the entry a store writes is still in the cache when the
\* call returns, for every capacity and every prior content: the cleanup the
\* store triggers never removes the entry just inserted.
C35_StoredEntrySurvives ==
    lastCall.stored =>
        \E k \in DOMAIN query_cache :
            /\ query_cache[k].key = lastCall.key
            /\ query_cache[k].cached_at = lastCall.at

\* C36 (as stated): the cleanup completes without error for every capacity
\* and cache size, so a miss whose function succeeded returns the function's
\* result.
C36_CleanupNeverFails ==
    (lastCall.path = "miss" /\ lastCall.raised # "func") =>
        /\ lastCall.raised = "none"
        /\ lastCall.returned # NoResult

\* ------------------------------------------------------------------------
\* Properties of the notifications' read state and of message threads.

\* C31 (as stated): in the fixture of NotificationModelTest, once three
\* further notifications have been created for the user, unread_count(user)
\* is 3 while none of the user's notifications has been marked, and 2 after
\* one of the three has been marked as read.
C31_UnreadCountInFixture ==
    LET manual == (FixtureNotes + 1)..Len(notes)
        marked == {k \in manual : notes[k].is_read}
    IN  ( /\ Len(notes) = FixtureNotes + 3
          /\ \A k \in manual : notes[k].user = "receiver"
          /\ \A k \in 1..FixtureNotes : ~notes[k].is_read
          /\ Cardinality(marked) <= 1 )
        => unread_count(notes, "receiver") = 3 - Cardinality(marked)

\* C37 (as stated): a notification is read exactly when its read_at is set.
C37_ReadAtIffRead ==
    \A k \in DOMAIN notes : notes[k].is_read <=> notes[k].read_at # "null"

RECURSIVE Links(_, _, _)
Links(ms, id, root) == IF id = root THEN 0 ELSE 1 + Links(ms, ms[id].parent, root)

\* C39 (as stated): for every stored message in every message graph the walk
\* to the root ends; get_thread_root returns a message with no parent and
\* thread_depth the number of parent links up to it.
C39_ThreadWalkTerminates ==
    \A id \in Existing :
        /\ get_thread_root(msgs, id) # Diverges
        /\ thread_depth(msgs, id) # Diverges
        /\ msgs[get_thread_root(msgs, id)].parent = 0
        /\ thread_depth(msgs, id) = Links(msgs, id, get_thread_root(msgs, id))

\* ------------------------------------------------------------------------
\* Properties of memoize and of the streaming generators.

\* The accesses of the same instance before access i that returned.
ReturnedBefore(i) ==
    {j \in 1..(i - 1) : maccesses[j].obj = maccesses[i].obj /\ maccesses[j].outcome = "returned"}

\* C32: on each instance the method runs on an access exactly when no earlier
\* access of that instance has returned, so once an access has returned it is
\* never run again (exactly once, on the first access, when that access
\* returns); every access returns the value that invocation produced, and
\* no access returns a value produced for another instance.
C32_InvokedOncePerInstance ==
    /\ \A i \in DOMAIN maccesses :
          /\ maccesses[i].invoked <=> ReturnedBefore(i) = {}
          /\ maccesses[i].outcome = "returned" => maccesses[i].value.of = maccesses[i].obj
          /\ \A j \in ReturnedBefore(i) :
                /\ maccesses[i].outcome = "returned"
                /\ maccesses[i].value = maccesses[j].value
    /\ \A o \in DOMAIN minvoked :
          (\E i \in DOMAIN maccesses :
              /\ maccesses[i].obj = o
              /\ maccesses[i].outcome = "returned"
              /\ \A j \in 1..(i - 1) : maccesses[j].obj # o)
          => minvoked[o] = 1

\* Three accesses of one instance and one of the other, all returned.
C32_Witness ==
    /\ Len(maccesses) = 4
    /\ \A i \in 1..3 : maccesses[i].obj = "a" /\ maccesses[i].outcome = "returned"
    /\ maccesses[4].obj = "b"
    /\ maccesses[4].value = MethodResult("b", 1)
    /\ maccesses[3].value = MethodResult("a", 1)
    /\ minvoked = [o \in MemoInstances |-> 1]

\* C40 (as stated): when the generator has ended, by exhaustion, by an error
\* in cursor(), execute or fetch, or by being abandoned, the connection has
\* been closed exactly once, the cursor exactly once when one was created,
\* and the cleanup has raised nothing.
C40_ClosedExactlyOnce ==
    gen.pc \in {"finished", "raised"} =>
        /\ cleanup.raised = "none"
        /\ cleanup.connection = 1
        /\ gen.connection = "closed"
        /\ gen.cursor # "unbound" => cleanup.cursor = 1

====
